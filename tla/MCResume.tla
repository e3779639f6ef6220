------------------------------ MODULE MCResume ------------------------------
(***************************************************************************)
(* lib is built from src and app from lib and main; check is a job without *)
(* outputs that needs lib and may fail.                                    *)
(***************************************************************************)
EXTENDS Resume, TLC

CONSTANTS lib, app, check, src, main, obj, bin, exe

Of(a, b, c) == lib :> a @@ app :> b @@ check :> c

Chain == [
  needs |-> Of({}, {lib}, {lib}),
  inputs |-> Of({src}, {main}, {}), reads |-> Of({src}, {main, bin}, {bin}),
  writes |-> Of({bin, obj}, {exe}, {}), outs |-> Of({bin, obj}, {exe}, {}),
  clean |-> Of({obj}, {}, {}), hears |-> Of({}, {}, {}), tolerant |-> {}, flaky |-> {app, check}]

(* lib is tolerated when it fails; app builds on it all the same.          *)
Tolerant == [Chain EXCEPT !.needs[check] = {app}, !.tolerant = {lib}, !.flaky = {lib}]

(* lib declares no outputs: it has no fingerprint for app to build on.     *)
Undeclared == [Chain EXCEPT !.outs[lib] = {}]

(* check depends on lib through app: the fingerprint of app tells.         *)
Through == [Chain EXCEPT !.needs[check] = {app}, !.reads[check] = {bin}, !.clean[lib] = {},
              !.writes[lib] = {bin}, !.outs[lib] = {bin}, !.writes[check] = {obj}, !.outs[check] = {obj}]

(* app reads a value that lib passes; check builds on the files of lib.    *)
Heard == [Chain EXCEPT !.hears[app] = {lib}, !.flaky = {}]

MCPlans == {Chain, Tolerant, Undeclared, Through, Heard}

(* app declares what it takes from lib as an input.                        *)
DerivedInput == {[Chain EXCEPT !.inputs[app] = {main, bin}]}

=============================================================================
