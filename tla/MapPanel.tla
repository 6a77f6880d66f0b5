------------------------------ MODULE MapPanel ------------------------------
(***************************************************************************)
(* One channel's map (cogs/map.py): the rows of maps and map_markers, and  *)
(* the messages on Discord that show a rendered picture of the markers.    *)
(*                                                                         *)
(* An action is one awaited call with the local code up to the next one; a *)
(* statement and the commit that follows it are one.  A picture is the set *)
(* of markers that was read to render it.  Two rows for the channel are    *)
(* possible; _load_map takes the older one, so that the markers are all    *)
(* that one's.  Permissions, the rate limit and the audit note are left    *)
(* out, and so is a teardown of the guild.                                 *)
(***************************************************************************)
EXTENDS Naturals, Sequences

CONSTANTS
    Handlers,   \* interactions that may be in flight together
    Nil,
    MaxMarks,   \* bound on markers ever placed
    MaxPosts,   \* bound on messages ever posted
    MaxRuns,    \* bound on interactions
    MaxFaults,  \* bound on calls that fail, and crashes
    MaxHands    \* bound on messages deleted in the client

VARIABLES
    maps,     \* the channel's rows, oldest first: message_id of each
    markers,  \* the markers of the first
    posts,    \* the messages there are, and the picture each shows
    task,     \* what each interaction carries across an await
    calm,     \* history: the interaction that has had the map to itself
    marks, posted, runs, faults, hands   \* what the bounds count

bounds == <<marks, posted, runs, faults, hands>>
vars == <<maps, markers, posts, task, calm, bounds>>

Task == [pc : {"idle", "first", "insert", "mark", "clear", "refresh", "render",
               "fetch", "edit", "send", "record"},
         msg : 0..MaxPosts,           \* message_id in the row as it was read
         png : SUBSET (1..MaxMarks)]  \* the picture to publish

Idle == [pc |-> "idle", msg |-> 0, png |-> {}]

Init ==
    /\ maps = <<>> /\ markers = {} /\ posts = <<>>
    /\ task = [t \in Handlers |-> Idle]
    /\ calm = Nil
    /\ marks = 0 /\ posted = 0 /\ runs = 0 /\ faults = 0 /\ hands = 0

-----------------------------------------------------------------------------
Goto(t, pc) == task' = [task EXCEPT ![t].pc = pc]
Ends(t) == task' = [task EXCEPT ![t] = Idle]
Fault == faults < MaxFaults /\ faults' = faults + 1

\* An interaction begins; it is calm until anything else happens to the map.
Begins(t, pc) ==
    /\ task[t] = Idle
    /\ runs < MaxRuns /\ runs' = runs + 1
    /\ task' = [task EXCEPT ![t].pc = pc,
                            ![t].msg = IF maps = <<>> THEN 0 ELSE maps[1]]
    /\ calm' = IF \A u \in Handlers : task[u] = Idle THEN t ELSE Nil
    /\ UNCHANGED <<maps, markers, posts, marks, posted, faults, hands>>

\* /map, and the two modals; without a row the latter decline.
MapCommand(t) == Begins(t, IF maps = <<>> THEN "first" ELSE "refresh")
DoMark(t) == maps # <<>> /\ Begins(t, "mark")
DoClear(t) == maps # <<>> /\ Begins(t, "clear")

\* A message is posted, with a picture.
Posts(png) ==
    /\ posted < MaxPosts /\ posted' = posted + 1
    /\ posts' = [m \in DOMAIN posts \cup {posted'} |->
                    IF m = posted' THEN png ELSE posts[m]]

-----------------------------------------------------------------------------
(***************************************************************************)
(* The first /map of the channel                                           *)
(***************************************************************************)
PostFirst(t) ==
    /\ task[t].pc = "first"
    /\ Posts({})
    /\ task' = [task EXCEPT ![t].pc = "insert", ![t].msg = posted']
    /\ UNCHANGED <<maps, markers, calm, marks, runs, faults, hands>>

InsertMap(t) ==
    /\ task[t].pc = "insert"
    /\ maps' = Append(maps, task[t].msg)
    /\ Ends(t)
    /\ UNCHANGED <<markers, posts, calm, bounds>>

-----------------------------------------------------------------------------
(***************************************************************************)
(* The edit of a mark or a clear, then the picture                         *)
(***************************************************************************)
InsertMarker(t) ==
    /\ task[t].pc = "mark"
    /\ marks < MaxMarks /\ marks' = marks + 1
    /\ markers' = markers \cup {marks'}
    /\ Goto(t, "render")
    /\ UNCHANGED <<maps, posts, calm, posted, runs, faults, hands>>

DeleteMarkers(t) ==
    /\ task[t].pc = "clear"
    /\ \/ markers' = {}
       \/ \E k \in markers : markers' = markers \ {k}
    /\ Goto(t, "render")
    /\ UNCHANGED <<maps, posts, calm, bounds>>

\* The id given is no marker's.
NoSuchMarker(t) ==
    /\ task[t].pc = "clear"
    /\ Ends(t)
    /\ UNCHANGED <<maps, markers, posts, calm, bounds>>

\* Mutant of Render: the picture is of the markers before the latest.
RenderEarlier(t) ==
    /\ task[t].pc \in {"refresh", "render"}
    /\ task' = [task EXCEPT ![t].pc = "fetch", ![t].png = markers \ {marks}]
    /\ UNCHANGED <<maps, markers, posts, calm, bounds>>

Render(t) ==
    /\ task[t].pc \in {"refresh", "render"}
    /\ task' = [task EXCEPT ![t].pc = "fetch", ![t].png = markers]
    /\ UNCHANGED <<maps, markers, posts, calm, bounds>>

\* A mark or a clear whose channel is not in the cache shows nothing.
NoChannel(t) ==
    /\ task[t].pc = "render"
    /\ Ends(t)
    /\ Fault
    /\ UNCHANGED <<maps, markers, posts, calm, marks, posted, runs, hands>>

-----------------------------------------------------------------------------
(***************************************************************************)
(* _refresh_message                                                        *)
(***************************************************************************)
Fetch(t) ==
    /\ task[t].pc = "fetch"
    /\ Goto(t, IF task[t].msg \in DOMAIN posts THEN "edit" ELSE "send")
    /\ UNCHANGED <<maps, markers, posts, calm, bounds>>

Edit(t) ==
    /\ task[t].pc = "edit" /\ task[t].msg \in DOMAIN posts
    /\ posts' = [posts EXCEPT ![task[t].msg] = task[t].png]
    /\ Ends(t)
    /\ UNCHANGED <<maps, markers, calm, bounds>>

\* The message is gone since it was fetched, or Discord refuses the edit.
EditFails(t) ==
    /\ task[t].pc = "edit"
    /\ IF task[t].msg \in DOMAIN posts THEN Fault ELSE UNCHANGED faults
    /\ Goto(t, "send")
    /\ UNCHANGED <<maps, markers, posts, calm, marks, posted, runs, hands>>

\* Mutant of Send: the new message is not recorded.
SendOnly(t) ==
    /\ task[t].pc = "send"
    /\ Posts(task[t].png)
    /\ Ends(t)
    /\ UNCHANGED <<maps, markers, calm, marks, runs, faults, hands>>

Send(t) ==
    /\ task[t].pc = "send"
    /\ Posts(task[t].png)
    /\ task' = [task EXCEPT ![t].pc = "record", ![t].msg = posted']
    /\ UNCHANGED <<maps, markers, calm, marks, runs, faults, hands>>

Record(t) ==
    /\ task[t].pc = "record"
    /\ maps' = [maps EXCEPT ![1] = task[t].msg]
    /\ Ends(t)
    /\ UNCHANGED <<markers, posts, calm, bounds>>

-----------------------------------------------------------------------------
\* Any other HTTPException ends the handler (view_util tells the user).
Fails(t) ==
    /\ task[t].pc \in {"first", "fetch", "send"}
    /\ Fault
    /\ Ends(t)
    /\ UNCHANGED <<maps, markers, posts, calm, marks, posted, runs, hands>>

Crash ==
    /\ Fault
    /\ task' = [t \in Handlers |-> Idle]
    /\ calm' = Nil
    /\ UNCHANGED <<maps, markers, posts, marks, posted, runs, hands>>

\* A message is deleted in the client.
MessageDeleted ==
    /\ hands < MaxHands /\ hands' = hands + 1
    /\ calm' = Nil
    /\ \E m \in DOMAIN posts : posts' = [n \in DOMAIN posts \ {m} |-> posts[n]]
    /\ UNCHANGED <<maps, markers, task, marks, posted, runs, faults>>

Next ==
    \/ \E t \in Handlers :
          \/ MapCommand(t) \/ DoMark(t) \/ DoClear(t)
          \/ PostFirst(t) \/ InsertMap(t)
          \/ InsertMarker(t) \/ DeleteMarkers(t) \/ NoSuchMarker(t)
          \/ Render(t) \/ NoChannel(t)
          \/ Fetch(t) \/ Edit(t) \/ EditFails(t) \/ Send(t) \/ Record(t)
          \/ Fails(t)
    \/ Crash \/ MessageDeleted

Spec == Init /\ [][Next]_vars

-----------------------------------------------------------------------------
TypeOK ==
    /\ maps \in Seq(1..MaxPosts)
    /\ markers \subseteq 1..MaxMarks
    /\ DOMAIN posts \subseteq 1..posted
    /\ \A m \in DOMAIN posts : posts[m] \subseteq 1..MaxMarks
    /\ task \in [Handlers -> Task]
    /\ calm \in Handlers \cup {Nil}
    /\ {marks, posted, runs, faults, hands} \subseteq Nat

\* What the channel's message shows is what the table holds.
PictureIsCurrent ==
    /\ maps[1] \in DOMAIN posts
    /\ posts[maps[1]] = markers

Completes(t) ==
    /\ task[t].pc \in {"insert", "edit", "send", "record"}
    /\ task'[t] = Idle
    /\ faults' = faults

\* Overlapping edits publish in any order, leave a second row and pictures
\* that nobody edits again, and a crash leaves an edit unpublished.  Whatever
\* they have left, one mark, clear or /map that has the map to itself and runs
\* to its end puts the recorded message right (_refresh_message).
UndisturbedRunRepairs ==
    [][\A t \in Handlers : calm = t /\ Completes(t) => PictureIsCurrent']_vars

\* What overlapping edits break: with nothing in flight, no call having failed
\* and no message deleted, the channel's message shows every marker.
QuietMapIsCurrent ==
    (\A t \in Handlers : task[t] = Idle) /\ faults = 0 /\ hands = 0
        => (maps # <<>> => PictureIsCurrent)
=============================================================================
