------------------------------ MODULE Procedures ------------------------------
(***************************************************************************)
(* The procedures sessions run, as the data the engine loads               *)
(* (internal/baseprocedures/entries): the user-dialogue shell, capture and *)
(* implementation.  Prose, renders and injects are left out; a draft's     *)
(* fields are one field, "draft", and a corrected summary or title one     *)
(* field, "correction".                                                    *)
(***************************************************************************)
LOCAL INSTANCE Naturals
LOCAL INSTANCE Sequences

CONSTANT None

Completed == "end(completed)"
Abandoned == "end(abandoned)"

When(guard, to) == [when |-> guard, to |-> to]
Otherwise(to) == When({}, to)

Gate(guard, op, transitions) ==
    [chooser |-> "gate", guard |-> guard, op |-> op,
     transitions |-> transitions, options |-> {}]
Chooser(kind, options) ==
    [chooser |-> kind, guard |-> {}, op |-> None,
     transitions |-> <<>>, options |-> options]

Option(choice, to) ==
    [choice |-> choice, to |-> to, call |-> None, collect |-> {},
     required |-> {}, dispatch |-> None, seed |-> {}]
Collecting(choice, fields, to) == [Option(choice, to) EXCEPT !.collect = fields]
Calling(choice, fields, fn, to) ==
    [Option(choice, to) EXCEPT !.collect = fields, !.call = fn]
Dispatching(choice, proc, seed, to) ==
    [Option(choice, to) EXCEPT !.dispatch = proc, !.seed = seed]

(***************************************************************************)
(* user-dialogue: the resident junction and the way out.                   *)
(***************************************************************************)
UserDialogue ==
    [class |-> "shell", first |-> "junction", fields |-> {},
     steps |-> [s \in {"junction", "wrap"} |->
        CASE s = "junction" -> Chooser("user", {Option("conclude", "wrap")})
          [] s = "wrap" -> Gate({}, None, <<Otherwise(Completed)>>)]]

(***************************************************************************)
(* capture: assemble, guide, play back, pre-flight, write, verify.         *)
(***************************************************************************)
CaptureSteps == {"assemble", "guide", "guideReview", "playback", "preflight",
                 "write", "publish", "reviseOrOverride", "verifySummary"}

Capture ==
    [class |-> "move", first |-> "assemble",
     fields |-> {"draft", "captureBranch", "correction", "anchor"},
     steps |-> [s \in CaptureSteps |->
        CASE s = "assemble" ->
                Gate({}, None, <<When({"draftValidates"}, "guide")>>)
          [] s = "guide" ->
                Gate({}, "writingGuide",
                     <<When({"noGuideFindings"}, "playback"),
                       When({"guideReviewed"}, "playback"),
                       Otherwise("guideReview")>>)
          [] s = "guideReview" ->
                Chooser("agent",
                    {Calling("revise", {"draft"}, "recordGuideReview", "assemble"),
                     Calling("proceed", {}, "recordGuideReview", "playback"),
                     Calling("recheck", {"draft"}, "requestGuideRecheck", "assemble")})
          [] s = "playback" ->
                Chooser("user",
                    {Calling("confirm", {}, "confirmPlayback", "preflight"),
                     Collecting("adjust", {"draft"}, "assemble"),
                     Option("abort", Abandoned)})
          [] s = "preflight" ->
                Gate({"playbackConfirmed"}, "preflightEntry",
                     <<When({"noHighFindings"}, "write"),
                       Otherwise("reviseOrOverride")>>)
          [] s = "write" ->
                Gate({"playbackConfirmed"}, None,
                     <<When({"capturePreflightCurrent"}, "publish"),
                       Otherwise("preflight")>>)
          [] s = "publish" ->
                Gate({"playbackConfirmed"}, "newEntry", <<Otherwise("verifySummary")>>)
          [] s = "reviseOrOverride" ->
                Chooser("user",
                    {Collecting("revise", {"draft"}, "assemble"),
                     Calling("override", {}, "recordOverride", "write"),
                     Option("abort", Abandoned)})
          [] s = "verifySummary" ->
                Chooser("agent",
                    {Option("faithful", Completed),
                     Calling("drifted", {"correction"}, "replaceSummary", Completed)})]]

(***************************************************************************)
(* implementation: a contract, a WIP marker, the work, its closing.        *)
(***************************************************************************)
ImplementationSteps == {"anchor", "contract", "setup", "work", "unwind", "unmark",
                        "record", "release", "closeout"}

Implementation ==
    [class |-> "move", first |-> "anchor",
     fields |-> {"anchor", "contract", "doneEntry"},
     steps |-> [s \in ImplementationSteps |->
        CASE s = "anchor" -> Gate({}, None, <<When({"hasAnchor"}, "contract")>>)
          [] s = "contract" -> Gate({}, None, <<When({"hasContract"}, "setup")>>)
          [] s = "setup" ->
                Chooser("user",
                    {Calling("inPlace", {}, "wipStart", "work"),
                     Option("quick", "work"),
                     Dispatching("hold", "capture", {"anchor"}, "setup"),
                     Option("abort", Abandoned)})
          [] s = "work" ->
                Chooser("agent",
                    {Option("continue", "work"),
                     Dispatching("blocked", None, {"anchor"}, "work"),
                     Dispatching("conclude", "capture", {"anchor"}, "record"),
                     Option("abandon", "unwind")})
          [] s = "unwind" ->
                Gate({}, None, <<When({"hasWipMarker"}, "unmark"), Otherwise(Abandoned)>>)
          [] s = "unmark" -> Gate({}, "wipDone", <<Otherwise(Abandoned)>>)
          [] s = "record" ->
                Gate({}, None, <<When({"hasDoneEntry", "hasWipMarker"}, "release"),
                                 When({"hasDoneEntry"}, "closeout")>>)
          [] s = "release" -> Gate({}, "wipDone", <<Otherwise("closeout")>>)
          [] s = "closeout" -> Chooser("user", {Option("finish", Completed)})]]
=============================================================================
