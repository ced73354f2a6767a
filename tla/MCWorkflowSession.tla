-------------------------- MODULE MCWorkflowSession --------------------------
(***************************************************************************)
(* Small instances of WorkflowSession for TLC.                             *)
(***************************************************************************)
EXTENDS SessionInvariants, TLC

INSTANCE Procedures

CONSTANTS d1, d2      \* two drafts

MCSteps == {"junction", "wrap"} \cup CaptureSteps \cup ImplementationSteps

\* Capture sessions: the shell and captures.
CaptureProcs == {"user-dialogue", "capture"}
CaptureSpecs == [p \in CaptureProcs |->
    IF p = "capture" THEN Capture ELSE UserDialogue]

\* Implementation sessions: the shell, implementations and captures.
AllProcs == {"user-dialogue", "implementation", "capture"}
AllSpecs == [p \in AllProcs |->
    CASE p = "capture" -> Capture
      [] p = "implementation" -> Implementation
      [] p = "user-dialogue" -> UserDialogue]

MCStateFields == {"draft", "captureBranch", "correction", "anchor", "contract", "doneEntry"}
MCBranches == {"base", "topic"}
MCValues == {d1, d2, "set"} \cup MCBranches
MCFieldValues == [f \in MCStateFields |->
    CASE f = "draft" -> {d1, d2}
      [] f = "captureBranch" -> MCBranches
      [] OTHER -> {"set"}]
OneDraft == [MCFieldValues EXCEPT !["draft"] = {d1}]

\* Batches of fields a caller reports.
DraftBatches == {{"draft"}}
ContractBatches == {{"anchor", "contract"}}
WorkBatches == {{"anchor", "contract"}, {"doneEntry"}}

\* Neither the drafts nor the handles are told apart by anything.
DraftSymmetry == Permutations({d1, d2})
HandleSymmetry == Permutations(Handles)
=============================================================================
