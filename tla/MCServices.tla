----------------------------- MODULE MCServices -----------------------------
(***************************************************************************)
(* Two jobs, of two runs, so that either can be canceled and killed alone. *)
(* The names of their networks are the same, as for jobs test/a and test-a *)
(* or for one job in two runs, or they are not.  They start their services *)
(* in opposite orders.                                                     *)
(***************************************************************************)
EXTENDS Services, TLC

CONSTANTS a, b, first, second, n, m, db, web

MCRunOf == a :> first @@ b :> second
MCNamings == {a :> n @@ b :> n, a :> n @@ b :> m}
MCSpecs == a :> <<db, web>> @@ b :> <<web, db>>
MCMortal == {n} \X {db, web}

=============================================================================
