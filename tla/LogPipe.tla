------------------------------ MODULE LogPipe ------------------------------
(***************************************************************************)
(* The way of a step's output: NativeRunner.Run of internal/runner, the    *)
(* tailWriter of the step, the log file and the console reader of its job  *)
(* (internal/logs/stream.go).  The steps of a job run in parallel and      *)
(* share the console and the file.                                         *)
(*                                                                         *)
(*   process --fd--> copier --> tail, console pipe, file                   *)
(*                                      |                                  *)
(*                                      +--> reader --> printed            *)
(*                                                                         *)
(* The copier is the goroutine of os/exec that a Stdout which is no file   *)
(* needs; cmd.Wait waits for it.  Output is a sequence of pieces, each of  *)
(* a step and with or without a newline at its end; how bytes are grouped  *)
(* into pieces, and the masking of secrets, are left out.                  *)
(***************************************************************************)
EXTENDS Naturals, Sequences, FiniteSets

Q == INSTANCE SequencesExt

CONSTANTS
  Steps,       \* the steps of the job
  Scripts,     \* what the commands write: functions from steps to sequences
               \* of Booleans, "the piece ends in a newline"
  Background,  \* the steps whose command leaves a child with its output open
  FdSize,      \* pieces that a pipe of the kernel holds
  MaxLine,     \* pieces without a newline that fill the Scanner's buffer
  MaxTail,     \* tailLines
  FileFills,   \* the disk may be full
  None         \* no piece, no step

ASSUME SizesAssumption == FdSize \in Nat \ {0} /\ MaxLine \in Nat \ {0} /\ MaxTail \in Nat \ {0}
ASSUME StepsAssumption == None \notin Steps
ASSUME ScriptsAssumption == Scripts \subseteq [Steps -> Seq(BOOLEAN)]

VARIABLES
  script,   \* the script of this run; never changes
  proc,     \* the process group of each step
  written,  \* pieces that the process has written
  fd,       \* those in the kernel's pipe
  copier,   \* where the copier is, and
  held,     \* the piece it holds
  tail,     \* tailWriter.lines and .partial
  file,     \* the persisted log: sequence of pieces
  writer,   \* the copier whose piece is in the console pipe
  reader,   \* the console reader: "scan", "print" or "stopped"
  buf,      \* what it has read and not printed
  printed,  \* the lines on the console
  pc,       \* where NativeRunner.Run is
  result,   \* what it has returned
  canceled  \* the context of the step is done

procVars == <<proc, written>>
copyVars == <<copier, held, tail, file>>
consoleVars == <<writer, reader, buf, printed>>
runVars == <<pc, result, canceled>>
vars == <<script, procVars, fd, copyVars, consoleVars, runVars>>

Piece(s, n) == [step |-> s, no |-> n, nl |-> script[s][n]]

(* The last n elements of q.                                               *)
Last(q, n) == SubSeq(q, IF Len(q) > n THEN Len(q) - n + 1 ELSE 1, Len(q))

(* Nothing can be written any more: the group is gone, or the command has  *)
(* ended and has left nobody behind.                                       *)
Closed(s) == proc[s] \in {"killed", "broken"} \/ (proc[s] = "exited" /\ s \notin Background)

------------------------------------------------------------------------------
(* The process                                                             *)

Write(s) ==
  /\ proc[s] = "running" /\ written[s] < Len(script[s])
  /\ \/ /\ copier[s] # "failed" /\ Len(fd[s]) < FdSize
        /\ written' = [written EXCEPT ![s] = @ + 1]
        /\ fd' = [fd EXCEPT ![s] = Append(@, Piece(s, written[s] + 1))]
        /\ UNCHANGED proc
     \/ /\ copier[s] = "failed"        \* nobody reads the pipe: SIGPIPE
        /\ proc' = [proc EXCEPT ![s] = "broken"] /\ UNCHANGED <<written, fd>>
  /\ UNCHANGED <<script, copyVars, consoleVars, runVars>>

Exit(s) ==
  /\ proc[s] = "running" /\ written[s] = Len(script[s])
  /\ proc' = [proc EXCEPT ![s] = "exited"]
  /\ UNCHANGED <<script, written, fd, copyVars, consoleVars, runVars>>

------------------------------------------------------------------------------
(* The copier                                                              *)

(* push: the window is cut after every line.                               *)
Push(t, line) == Last(Append(t, line), MaxTail)

(* Write of tailWriter; the lock is held for the whole of it.              *)
Tee(t, p) ==
  IF p.nl THEN [lines |-> Push(t.lines, Append(t.partial, p)), partial |-> <<>>]
          ELSE [t EXCEPT !.partial = Append(@, p)]

(* Tail: the retained lines and the text after the last newline, cut once  *)
(* more.  (Slip: it is not.)                                               *)
TailLoose(t) == IF t.partial = <<>> THEN t.lines ELSE Append(t.lines, t.partial)
Tail_(t) == Last(IF t.partial = <<>> THEN t.lines ELSE Append(t.lines, t.partial), MaxTail)

Read(s) ==
  /\ copier[s] = "read" /\ fd[s] # <<>>
  /\ fd' = [fd EXCEPT ![s] = Tail(@)]
  /\ held' = [held EXCEPT ![s] = Head(fd[s])]
  /\ tail' = [tail EXCEPT ![s] = Tee(@, Head(fd[s]))]
  /\ copier' = [copier EXCEPT ![s] = "pipe"]
  /\ UNCHANGED <<script, procVars, file, consoleVars, runVars>>

(* Write of io.Pipe: one writer at a time, until its bytes are read.       *)
ToConsole(s) ==
  /\ copier[s] = "pipe" /\ writer = None
  /\ writer' = s
  /\ UNCHANGED <<script, procVars, fd, copyVars, reader, buf, printed, runVars>>

(* MultiWriter writes to the file when the pipe has taken the piece; if    *)
(* the file does not, the copy ends.                                       *)
ToFile(s) ==
  /\ copier[s] = "file"
  /\ \/ /\ file' = Append(file, held[s])
        /\ copier' = [copier EXCEPT ![s] = "read"]
     \/ /\ FileFills
        /\ copier' = [copier EXCEPT ![s] = "failed"] /\ UNCHANGED file
  /\ held' = [held EXCEPT ![s] = None]
  /\ UNCHANGED <<script, procVars, fd, tail, consoleVars, runVars>>

EndOfFile(s) ==
  /\ copier[s] = "read" /\ fd[s] = <<>> /\ Closed(s)
  /\ copier' = [copier EXCEPT ![s] = "ended"]
  /\ UNCHANGED <<script, procVars, fd, held, tail, file, consoleVars, runVars>>

------------------------------------------------------------------------------
(* The console reader of MaskedPrefixed.  Nobody closes the pipe, so it    *)
(* never sees an end, and text after the last newline stays in its buffer. *)

Scan ==
  /\ reader = "scan" /\ writer # None /\ Len(buf) < MaxLine
  /\ buf' = Append(buf, held[writer])
  /\ reader' = IF held[writer].nl THEN "print" ELSE "scan"
  /\ copier' = [copier EXCEPT ![writer] = "file"]
  /\ writer' = None
  /\ UNCHANGED <<script, procVars, fd, held, tail, file, printed, runVars>>

PrintLine ==
  /\ reader = "print"
  /\ printed' = Append(printed, buf)
  /\ buf' = <<>> /\ reader' = "scan"
  /\ UNCHANGED <<script, procVars, fd, copyVars, writer, runVars>>

(* bufio.ErrTooLong: Scan returns false and the goroutine ends.            *)
TooLong ==
  /\ reader = "scan" /\ Len(buf) >= MaxLine
  /\ reader' = "stopped"
  /\ UNCHANGED <<script, procVars, fd, copyVars, writer, buf, printed, runVars>>

------------------------------------------------------------------------------
(* NativeRunner.Run                                                        *)

StartCmd(s) ==
  /\ pc[s] = "start"
  /\ \/ /\ pc' = [pc EXCEPT ![s] = "select"]
        /\ proc' = [proc EXCEPT ![s] = "running"]
        /\ copier' = [copier EXCEPT ![s] = "read"]
        /\ UNCHANGED result
     \/ /\ pc' = [pc EXCEPT ![s] = "returned"]
        /\ result' = [result EXCEPT ![s] = "failed"]
        /\ UNCHANGED <<proc, copier>>
  /\ UNCHANGED <<script, written, fd, held, tail, file, consoleVars, canceled>>

(* cmd.Wait returns: the command has ended, and the copy too.  (Slip: it   *)
(* is not waited for.)                                                     *)
ProcessGone(s) == proc[s] \in {"exited", "killed", "broken"}
Waited(s) == proc[s] \in {"exited", "killed", "broken"} /\ copier[s] \in {"ended", "failed"}

(* Its error: the exit status, or else that of the copy.                   *)
WaitFails(s) == proc[s] # "exited" \/ copier[s] = "failed"

WaitDone(s) ==
  /\ pc[s] = "select" /\ Waited(s)
  /\ pc' = [pc EXCEPT ![s] = "returned"]
  /\ result' = [result EXCEPT ![s] = IF WaitFails(s) THEN "failed" ELSE "ok"]
  /\ UNCHANGED <<script, procVars, fd, copyVars, consoleVars, canceled>>

(* killProcessGroup takes the children of the command too.  (Slip: only    *)
(* the command is killed.)                                                 *)
KillCommand(s) ==
  /\ pc[s] = "select" /\ canceled
  /\ pc' = [pc EXCEPT ![s] = "reap"]
  /\ proc' = [proc EXCEPT ![s] = IF @ = "running" THEN IF s \in Background THEN "exited" ELSE "killed"
                                                  ELSE @]
  /\ UNCHANGED <<script, written, fd, copyVars, consoleVars, result, canceled>>

KillGroup(s) ==
  /\ pc[s] = "select" /\ canceled
  /\ pc' = [pc EXCEPT ![s] = "reap"]
  /\ proc' = [proc EXCEPT ![s] = "killed"]
  /\ UNCHANGED <<script, written, fd, copyVars, consoleVars, result, canceled>>

Reap(s) ==
  /\ pc[s] = "reap" /\ Waited(s)
  /\ pc' = [pc EXCEPT ![s] = "returned"]
  /\ result' = [result EXCEPT ![s] = "canceled"]
  /\ UNCHANGED <<script, procVars, fd, copyVars, consoleVars, canceled>>

(* The run is canceled, or a timeout is over.                              *)
Cancel ==
  /\ ~canceled /\ canceled' = TRUE
  /\ UNCHANGED <<script, procVars, fd, copyVars, consoleVars, pc, result>>

Init ==
  /\ script \in Scripts
  /\ proc = [s \in Steps |-> "none"] /\ written = [s \in Steps |-> 0]
  /\ fd = [s \in Steps |-> <<>>]
  /\ copier = [s \in Steps |-> "none"] /\ held = [s \in Steps |-> None]
  /\ tail = [s \in Steps |-> [lines |-> <<>>, partial |-> <<>>]]
  /\ file = <<>>
  /\ writer = None /\ reader = "scan" /\ buf = <<>> /\ printed = <<>>
  /\ pc = [s \in Steps |-> "start"] /\ result = [s \in Steps |-> None]
  /\ canceled = FALSE

Console == Scan \/ PrintLine \/ TooLong
Copy(s) == Read(s) \/ ToConsole(s) \/ ToFile(s) \/ EndOfFile(s)
Run(s) == StartCmd(s) \/ WaitDone(s) \/ KillGroup(s) \/ Reap(s)

(* The rest of the run goes on, whether or not this job is stuck.          *)
Elsewhere == UNCHANGED vars

Next ==
  \/ \E s \in Steps : Write(s) \/ Exit(s) \/ Copy(s) \/ Run(s)
  \/ Console \/ Cancel \/ Elsewhere

(* The goroutines are scheduled, and the lock of the console pipe does not *)
(* starve a copier.  Nothing is assumed of the commands, which may run for *)
(* ever, nor that anybody cancels anything.                                *)
Fairness ==
  /\ WF_vars(Console)
  /\ \A s \in Steps : SF_vars(Copy(s)) /\ WF_vars(Run(s))

Spec == Init /\ [][Next]_vars /\ Fairness

------------------------------------------------------------------------------
(* Properties                                                              *)

All(s, n) == [i \in 1..n |-> Piece(s, i)]

(* Of the pieces of s, q has the first n, each once and in order.          *)
Carries(q, s, n) ==
  LET at == {i \in DOMAIN q : q[i].step = s}
  IN  /\ {q[i] : i \in at} = {Piece(s, k) : k \in 1..n}
      /\ \A i, k \in at : i < k => q[i].no < q[k].no

(* The lines of q, with what follows the last newline as a line.           *)
Lines(q) ==
  LET Upto[n \in 0..Len(q)] ==
        CASE n = 0                            -> <<>>
          [] n > 0 /\ (n = 1 \/ q[n - 1].nl) -> Append(Upto[n - 1], <<q[n]>>)
          [] OTHER -> [Upto[n - 1] EXCEPT ![Len(Upto[n - 1])] = Append(@, q[n])]
  IN  Upto[Len(q)]

(* The command was started, the step has returned, and the file took all.  *)
Complete(s) == pc[s] = "returned" /\ proc[s] # "none" /\ copier[s] # "failed"

(* When a step has returned, everything that its command wrote before it   *)
(* ended is in the log file, in order and once; and so it is on the        *)
(* console, but for one line that is about to be printed and for text that *)
(* no newline has followed yet.                                            *)
OutputComplete == \A s \in Steps : Complete(s) =>
    /\ Carries(file, s, written[s])
    /\ Carries(Q!FlattenSeq(printed) \o buf, s, written[s])
    /\ Len(Lines(buf)) <= 1

(* The lines that a failed step reports are the last MaxTail of its own,   *)
(* text without a newline at the end included, whatever the other steps of *)
(* the job write at the same time.                                         *)
TailHonest == \A s \in Steps : Complete(s) =>
    Tail_(tail[s]) = Last(Lines(All(s, written[s])), MaxTail)

(* A step that is canceled or times out returns, also when its command has *)
(* children in the background, ignores its output or has filled the pipe.  *)
(* SPEC 6.6: on expiry the running process is killed and the step fails.   *)
CanceledReturns == \A s \in Steps : canceled /\ pc[s] # "start" ~> pc[s] = "returned"

(* internal/scheduler/logs_persist.go: persistence is best-effort and      *)
(* never fails a run.                                                      *)
LogsNeverFail == \A s \in Steps : result[s] = "failed" => proc[s] # "exited"

==============================================================================
