------------------------------ MODULE MCPanels ------------------------------
(***************************************************************************)
(* Small instances, side by side, of the components that are a matter of   *)
(* one guild's panels and pictures: "part" says which of them a behaviour  *)
(* is of, and the others rest in their initial states.                     *)
(***************************************************************************)
EXTENDS GuildConfig, RateLimiter, FiniteSets, Sequences, TLC

CONSTANTS
    Guilds, Users, Roles,
    MaxFaults, MaxHands,
    MaxMarks, MaxMessages, MaxInteractions,                         \* MapPanel
    Choices, Templates, Specs, OneAtATime, MaxApplications,         \* Scaffold
    Requests, Readers, StaleAfter, MaxTokens, MaxReports, MaxHours, \* Telemetry
    Statements, MaxStarts, MaxMoves,                                \* Boot
    Halves, Ordinals, Extent, Size, Amounts, Units, Second, Minute,
    Times, MaxDate,                                                 \* Formats
    Rungs, Commands, Limited, Buttons, AdminOnly, Required, MaxCalls,
    MaxPromotions, MaxStops                                         \* CommandGate

VARIABLES
    part,
    maps, markers, posts, picture, quiet, marks, posted, edits, faults, hands,
    view, run, row, kept, cats, chans, changed, alone, applied, made, refused,
    lost,
    time, stored, links, opening, heard, server, post, ask, tokens, sent, failed,
    schema, version, proc, member, rows, todo, joining, torn, starts, moves,
    input, answer,
    roles, ladder, rules, call, incidents, logged, calls, promoted, stops

pinned == <<maps, markers, posts, picture, quiet, marks, posted, edits, faults, hands>>
wizard == <<view, run, row, kept, cats, chans, changed, alone, applied, made,
            refused, lost>>
feed == <<time, stored, links, opening, heard, server, post, ask, tokens, sent, failed>>
boot == <<schema, version, proc, member, rows, todo, joining, torn, starts, moves>>
typed == <<input, answer>>
gate == <<roles, ladder, rules, call, incidents, logged, calls, promoted, stops>>
parts == <<vars, pinned, wizard, feed, boot, typed, gate, limiter>>

\* The choices with which the wizard is finished.
MCWizards == {[features |-> Features, audit |-> c, minimal |-> TRUE,
               perms |-> [k \in Keys |-> Nil]] : c \in Channels}

MCStatements == <<2, 1>>

MCSpecs == [t \in Templates |->
    IF t = "minimal" THEN <<>>
    ELSE <<[name |-> "x", category |-> "C"], [name |-> "y", category |-> "C"]>>]

ASSUME PinnedAssumption == {MaxMarks, MaxMessages} \subseteq Nat

ASSUME BootAssumption ==
    /\ Statements \in Seq(Nat \ {0})
    /\ Nil \notin {"defaults", "set"}

\* One template, the one preselected, has no channels.
ASSUME ScaffoldAssumption ==
    /\ Specs \in [Templates -> Seq([name : STRING, category : STRING])]
    /\ \E t \in Templates : Specs[t] = <<>>
    /\ Choices # {}

ASSUME FeedAssumption ==
    /\ {MaxTokens, MaxReports, MaxHours, StaleAfter} \subseteq Nat
    /\ Nil \notin Nat \cup Guilds

\* A minute is whole seconds, and no unit of a duration is shorter than one.
ASSUME FormatsAssumption ==
    /\ Ordinals \cup Amounts \cup Times \cup Units \cup {MaxDate} \subseteq Nat
    /\ {Extent, Size, Second, Minute} \subseteq Nat \ {0}
    /\ Minute % Second = 0
    /\ \A u \in Units : u >= Second

\* Rungs and thresholds are finitely many numbers, and Nil is none of them.
ASSUME GateAssumption ==
    /\ IsFiniteSet(Rungs) /\ Rungs \subseteq Nat
    /\ Required \in Nat /\ Nil \notin Nat

Pinned == INSTANCE MapPanel WITH
    Handlers <- Admins, MaxPosts <- MaxMessages, MaxRuns <- MaxInteractions,
    task <- picture, calm <- quiet, runs <- edits

Wizard == INSTANCE Scaffold WITH
    Handlers <- Admins, Settings <- Choices, Channels <- Specs,
    MaxRuns <- MaxApplications,
    saved <- kept, calm <- alone, runs <- applied, faults <- refused, hands <- lost

Feed == INSTANCE Telemetry WITH
    MaxPosts <- MaxReports, MaxTime <- MaxHours,
    clock <- time, posts <- sent, faults <- failed

Start == INSTANCE Boot WITH
    MaxCrashes <- MaxStarts,
    row <- rows, crashes <- starts

Typed == INSTANCE Formats

Gate == INSTANCE CommandGate WITH
    Calls <- Admins, Positions <- Rungs,
    MaxEdits <- MaxPromotions, MaxCrashes <- MaxStops,
    saved <- logged, edits <- promoted, crashes <- stops

PartsInit ==
    /\ part \in {"config", "map", "wizard", "feed", "boot", "typed", "gate", "limiter"}
    /\ Init /\ Pinned!Init /\ Feed!Init /\ LimiterInit
    /\ Wizard!Init /\ (part # "wizard" => row = CHOOSE c \in Choices : TRUE)
    /\ Start!Init /\ (part # "boot" => member = {})
    /\ Gate!Init
    /\ part # "gate" => /\ roles = [u \in Users |-> {}]
                        /\ ladder = [r \in Roles |-> Nil]
    /\ Typed!Init
    /\ part # "typed" => LET now == CHOOSE t \in Times : TRUE
                         IN  input = [what |-> "date", now |-> now, at |-> now]

PartsNext ==
    /\ UNCHANGED part
    /\ \/ /\ part = "config" /\ Next
          /\ UNCHANGED <<pinned, wizard, feed, boot, typed, gate, limiter>>
       \/ /\ part = "map" /\ Pinned!Next
          /\ UNCHANGED <<vars, wizard, feed, boot, typed, gate, limiter>>
       \/ /\ part = "wizard" /\ Wizard!Next
          /\ UNCHANGED <<vars, pinned, feed, boot, typed, gate, limiter>>
       \/ /\ part = "feed" /\ Feed!Next
          /\ UNCHANGED <<vars, pinned, wizard, boot, typed, gate, limiter>>
       \/ /\ part = "boot" /\ Start!Next
          /\ UNCHANGED <<vars, pinned, wizard, feed, typed, gate, limiter>>
       \/ /\ part = "typed" /\ Typed!Next
          /\ UNCHANGED <<vars, pinned, wizard, feed, boot, gate, limiter>>
       \/ /\ part = "gate" /\ Gate!Next
          /\ UNCHANGED <<vars, pinned, wizard, feed, boot, typed, limiter>>
       \/ /\ part = "limiter" /\ LimiterNext
          /\ UNCHANGED <<vars, pinned, wizard, feed, boot, typed, gate>>

PartsSpec == PartsInit /\ [][PartsNext]_<<part, parts>>

Symmetry == Permutations(Admins)

-----------------------------------------------------------------------------
\* The state of every part has its type.
PartsTypeOK ==
    /\ TypeOK /\ Pinned!TypeOK /\ Wizard!TypeOK /\ Feed!TypeOK
    /\ Start!TypeOK /\ Typed!TypeOK /\ Gate!TypeOK /\ LimiterTypeOK

\* MapPanel: an edit that meets nothing else leaves the picture up to date.
UndisturbedRunRepairs == Pinned!UndisturbedRunRepairs

\* Scaffold: no channel or category twice, whatever failed before.
NeverDuplicated == Wizard!NeverDuplicated

\* Scaffold: a wizard that says it is done has everything set up.
FinishedMeansDone == Wizard!FinishedMeansDone

\* Telemetry: a reply is about the guild's own server and not older than said.
OwnServerAndRecent == Feed!OwnServerAndRecent

\* Boot: a bot that is up has the schema and its guilds' rows.
UpMeansReady == Start!UpMeansReady

\* Boot: no start or join puts a guild's settings back.
SettingsOutlive == Start!SettingsOutlive

\* Formats: what members type comes back as they meant it.
InputsComeBack == Typed!InputsComeBack

\* CommandGate: the verdict is the rule's at one moment of the check, unless
\* ladder and rules were both edited under it.
VerdictIsOfOneMoment == Gate!VerdictIsOfOneMoment
=============================================================================
