---------------------------- MODULE AuthEpisode ----------------------------
(***************************************************************************)
(* What the authentication phase of one link promises to LCP (spec 4.1,   *)
(* 5): an episode starts with the directions LCP negotiated, each of them *)
(* ends ok or failed, and the episode is reported once: success exactly    *)
(* when every negotiated direction succeeded, failure as soon as one       *)
(* fails or the phase gives up.  LCP may abandon a pending episode by      *)
(* taking the link down.  Nothing is said after the report.                *)
(***************************************************************************)
CONSTANT DirChoices   \* the direction settings LCP may negotiate

Dirs == {"self", "peer"}
DirStates == {"none", "pending", "ok", "fail"}

VARIABLES
  epState,    \* "idle", "pending" or "reported"
  epDirs,     \* the state of each direction while pending
  epOutcome   \* what was reported

epVars == <<epState, epDirs, epOutcome>>

NoDirs == [d \in Dirs |-> "none"]

TypeOK ==
  /\ epState \in {"idle", "pending", "reported"}
  /\ epDirs \in [Dirs -> DirStates]
  /\ epOutcome \in BOOLEAN

(* Every negotiated direction ended ok.                                    *)
AllOk(ds) == \A d \in Dirs : ds[d] \in {"none", "ok"}

Report(ok) ==
  /\ epState' = "reported" /\ epOutcome' = ok /\ epDirs' = NoDirs

Init == epState = "idle" /\ epDirs = NoDirs /\ epOutcome = FALSE

(* LCP enters the phase; with nothing negotiated it succeeds at once.      *)
Begin ==
  /\ epState # "pending"
  /\ \E ds \in DirChoices :
       IF AllOk(ds)
       THEN Report(TRUE)
       ELSE epState' = "pending" /\ epDirs' = ds /\ epOutcome' = FALSE

(* A pending direction ends; the first failure, or the last success,       *)
(* is reported in the same step.                                           *)
Complete(d, ok) ==
  /\ epState = "pending" /\ epDirs[d] = "pending"
  /\ LET ds == [epDirs EXCEPT ![d] = IF ok THEN "ok" ELSE "fail"]
     IN IF ~ok THEN Report(FALSE)
        ELSE IF AllOk(ds) THEN Report(TRUE)
        ELSE epDirs' = ds /\ UNCHANGED <<epState, epOutcome>>

(* The phase gives up (timer, a malformed frame): failure.                  *)
GiveUp ==
  /\ epState = "pending"
  /\ Report(FALSE)

(* LCP takes the link down before the report.                              *)
Abandon ==
  /\ epState = "pending"
  /\ epState' = "idle" /\ epDirs' = NoDirs /\ UNCHANGED epOutcome

Next == Begin \/ GiveUp \/ Abandon \/ \E d \in Dirs, ok \in BOOLEAN : Complete(d, ok)

(* A pending episode does not stay pending: it is reported or abandoned.   *)
Spec == Init /\ [][Next]_epVars /\ WF_epVars(GiveUp \/ Abandon)
=============================================================================
