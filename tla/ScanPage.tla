------------------------------ MODULE ScanPage ------------------------------
(***************************************************************************)
(* The consumer's scan page (consumer/scan/page.tsx): a code is judged     *)
(* some time after it was entered, and the page returns to rest some time  *)
(* after that.  The timers are never cleared, so those of an earlier scan  *)
(* may fire while a later one is being processed.  Timers of one delay     *)
(* fire in the order they were set; how the two delays interleave is left  *)
(* open.                                                                   *)
(***************************************************************************)
EXTENDS Naturals, Sequences

CONSTANT MaxTimers       \* bound on the timers pending when a scan is started

ASSUME TimersAssumption == MaxTimers \in Nat

VARIABLES
    scan,            \* state: what the page shows
    verdicts,        \* the timers that will judge a code, and what they will say
    rests            \* how many timers will return the page to idle

scanVars == <<scan, verdicts, rests>>

Verdicts == {"success", "error"}

\* The page mounts; what timers of an unmounted page set is ignored.
ScanInit == scan = "idle" /\ verdicts = <<>> /\ rests = 0
ScanLeft == scan' = "idle" /\ verdicts' = <<>> /\ rests' = 0

\* The button is disabled while the page shows a scan as being processed.
handleScan(verdict) ==
    /\ scan # "scanning"
    /\ Len(verdicts) + rests < MaxTimers
    /\ scan' = "scanning"
    /\ verdicts' = Append(verdicts, verdict)
    /\ UNCHANGED rests

\* Mutant: only a success is cleared from the page.
JudgeKeepingError ==
    /\ verdicts # <<>>
    /\ scan' = Head(verdicts)
    /\ verdicts' = Tail(verdicts)
    /\ rests' = IF Head(verdicts) = "success" THEN rests + 1 ELSE rests

Judge ==
    /\ verdicts # <<>>
    /\ scan' = Head(verdicts)
    /\ verdicts' = Tail(verdicts)
    /\ rests' = rests + 1

Rest ==
    /\ rests > 0
    /\ scan' = "idle"
    /\ rests' = rests - 1
    /\ UNCHANGED verdicts

ScanNext == (\E v \in Verdicts : handleScan(v)) \/ Judge \/ Rest

\* The page never gets stuck: whatever it shows, a timer that ends it is still
\* to fire, though the timers of several scans overlap.
ScanNeverStuck ==
    /\ scan = "scanning" => verdicts # <<>>
    /\ scan \in Verdicts => rests > 0

=============================================================================
