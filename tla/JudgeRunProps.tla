---------------------------- MODULE JudgeRunProps ----------------------------
(***************************************************************************)
(* What one run of the judge is expected to guarantee.                     *)
(***************************************************************************)
EXTENDS JudgeRun

Running == {j \in Jobs : container[j] = "running"}

(***************************************************************************)
(* A submission never has more containers running than the semaphore       *)
(* allows, even when tests time out, except those docker failed to remove. *)
(***************************************************************************)
ContainersBounded == run # "crashed" => Cardinality(Running \ stuck) <= Limit

(***************************************************************************)
(* When runJudge has returned, none of its containers is left, however     *)
(* each of them ended, except those docker failed to remove.               *)
(***************************************************************************)
NothingLeftBehind ==
    run = "returned" => \A j \in Jobs \ stuck : container[j] \in {"none", "gone"}

(***************************************************************************)
(* As long as nobody replaces the tests, a test is accepted only if the    *)
(* program solves it, a wrong answer means that the program ended well and *)
(* answered wrongly, and an accepted program compiles and solves all.      *)
(***************************************************************************)
SoundResults ==
    edits = 0 =>
        /\ \A s \in Slots :
            /\ status[s] = "accepted" => fate[s] = "ok" /\ rc[s] = "zero"
            /\ status[s] = "wrong_answer" => fate[s] \in {"wrong", "silent"}
        /\ verdict = "accepted" => \A j \in Jobs : fate[j] = "ok"

(***************************************************************************)
(* The verdict and the points agree with the results as they are stored:   *)
(* the score of a group is credited, and once, if all its tests passed,    *)
(* and the program is accepted if all did.                                 *)
(***************************************************************************)
PointsMatchResults ==
    verdict \in {"accepted", "not accepted"} =>
        /\ verdict = "accepted" <=> \A s \in Slots : Passed(s)
        /\ \A s \in Slots :
            Cardinality(credited \intersect Mates(s)) =
                IF \A t \in Mates(s) : Passed(t) THEN 1 ELSE 0

(***************************************************************************)
(* A docker command that never returns blocks the run for ever, but no     *)
(* other test: these are done in the end, unless it is the compiler that   *)
(* hangs or hung tests fill the semaphore.                                 *)
(***************************************************************************)
Hung == {j \in Jobs : place[j] = "hung"}
Blocked ==
    /\ Hung # {}
    /\ \/ Compile \in Hung
       \/ Cardinality(Hung) = Limit
       \/ \A s \in Slots \ Hung : place[s] = "done"

(***************************************************************************)
(* runJudge returns a verdict, whatever the program does and however slow  *)
(* docker wait is, unless its process dies or docker run or docker rm      *)
(* never returns: the queue's assumption that what is judged is reported.  *)
(***************************************************************************)
EventuallyReturns == <>(run = "returned" \/ run = "crashed" \/ Blocked)

-----------------------------------------------------------------------------
(* The inductive strengthenings.                                           *)

Entered == {"starting", "polling", "waiting", "removing", "hung", "ran"}
Holders == {s \in Slots : place[s] \in Entered}

\* Tests are queued until the compiler is done, and nothing is at work after the return.
Phases ==
    /\ run = "new" => place[Compile] = "queued"
    /\ run \in {"new", "compiling"} => \A s \in Slots : place[s] = "queued"
    /\ run = "testing" => place[Compile] = "done"
    /\ run = "returned" => \A j \in Jobs : place[j] \in {"queued", "done"}

\* A container is there only between docker run and docker rm; one that hangs may leave it.
Contained ==
    \A j \in Jobs :
        /\ place[j] \in {"queued", "starting"} => container[j] = "none"
        /\ place[j] \in {"ran", "done"} => container[j] \in {"none", "gone"} \/ j \in stuck

SemCounts == sem = Cardinality(Holders)

RunInv == Phases /\ Contained /\ SemCounts

\* What rc and the binary say of the program, and the results of rc.
Evidence ==
    /\ tests = "cleared" => edits > 0
    /\ fate[Compile] \in {"ok", "crash", "hang"}
    /\ binary => fate[Compile] = "ok"
    /\ \A j \in Jobs : rc[j] # "none" => container[j] \in {"exited", "gone"}
    /\ \A j \in Jobs : place[j] \in {"removing", "ran"} => ended[j] # ""
    /\ \A s \in Slots : rc[s] = "zero" => binary /\ fate[s] \notin {"crash", "hang"}
    /\ SoundResults
    /\ verdict = "accepted" => run = "returned" /\ \A s \in Slots : Passed(s)

-----------------------------------------------------------------------------
(* What comments say, and the code does not do.                            *)

(***************************************************************************)
(* "every test is evaluated independently and its true result is shown":   *)
(* a program that solves a test and ends in time is not told that it       *)
(* failed at run time.                                                     *)
(***************************************************************************)
TrueResult ==
    \A s \in Slots :
        fate[s] = "ok" /\ rc[s] = "zero" /\ place[s] = "done" => status[s] # "runtime_error"

(***************************************************************************)
(* "always docker rm -f at the end ensures every container is cleaned up,  *)
(* so the daemon cannot leak containers": once the run is over, no         *)
(* container is left that will never end.                                  *)
(***************************************************************************)
NeverLeaks ==
    run \in {"returned", "crashed"} => \A j \in Running : fate[j] # "hang"

(***************************************************************************)
(* "catching any difference in the actual values": an accepted test was    *)
(* answered correctly.                                                     *)
(***************************************************************************)
CatchesDifferences == \A s \in Slots : status[s] = "accepted" => fate[s] = "ok"
=============================================================================
