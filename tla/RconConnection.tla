--------------------------- MODULE RconConnection ---------------------------
(***************************************************************************)
(* The connection of one RCON link (serverlink/rcon_link.py): the cog      *)
(* opens the link once and closes it once, the link's watchdog task        *)
(* replaces a connection that is down, and admins' commands use whichever  *)
(* one there is.                                                           *)
(*                                                                         *)
(* An action is one awaited call with the local code up to the next one.   *)
(* _client, _connect_ctx and _connected are always assigned together and   *)
(* are the one variable field.  A connection is named by its number.  How  *)
(* long the watchdog sleeps, and so its backoff_index, is left out.        *)
(*                                                                         *)
(* Of berconpy this is assumed: a context whose __aenter__ raises, on a    *)
(* refusal or on the cancellation of its task, holds nothing, and          *)
(* __aexit__ gives the connection up when it is called, whatever it then   *)
(* waits for.                                                              *)
(***************************************************************************)
EXTENDS Naturals, FiniteSets

CONSTANTS
    Callers,     \* commands that may be in flight together
    Nil,         \* no connection
    MaxConnects, \* bound on attempts to connect
    MaxDrops     \* bound on connections lost and logins refused

VARIABLES
    owner,    \* what the cog is doing with the link
    closing,  \* _closing
    field,    \* the connection in the link's fields
    held,     \* connections entered and not left
    up,       \* those that the server still answers on
    dog,      \* the watchdog task
    doomed,   \* it is to receive a CancelledError
    canAdmin,
    command,  \* what each caller waits for
    connects, drops

link == <<owner, closing, field>>
conns == <<held, up>>
watchdog == <<dog, doomed>>
commands == <<canAdmin, command>>
vars == <<link, conns, watchdog, commands, connects, drops>>

Owner == {"new", "opening", "open", "logout", "leaving", "closed"}
Dog == {"none", "asleep", "delay", "leaving", "entering", "done"}

Connected == field # Nil /\ field \in up        \* is_connected
Lost == drops < MaxDrops /\ drops' = drops + 1

Init ==
    /\ owner = "new" /\ closing = FALSE /\ field = Nil
    /\ held = {} /\ up = {}
    /\ dog = "none" /\ doomed = FALSE
    /\ canAdmin = TRUE
    /\ command = [c \in Callers |-> "none"]
    /\ connects = 0 /\ drops = 0

-----------------------------------------------------------------------------
(***************************************************************************)
(* _connect: the login succeeds, or fails and is logged.                   *)
(***************************************************************************)
Enters ==
    /\ field' = connects /\ held' = held \cup {connects}
    /\ up' = up \cup {connects}
    /\ UNCHANGED drops

Refused ==
    /\ Lost
    /\ field' = Nil
    /\ UNCHANGED <<held, up>>

Attempt == connects < MaxConnects /\ connects' = connects + 1

Open ==
    /\ owner = "new" /\ Attempt
    /\ closing' = FALSE /\ owner' = "opening"
    /\ UNCHANGED <<field, conns, watchdog, commands, drops>>

\* The watchdog starts whether or not the login succeeded.
Opened ==
    /\ owner = "opening"
    /\ Enters \/ Refused
    /\ owner' = "open" /\ dog' = "asleep"
    /\ UNCHANGED <<closing, doomed, commands, connects>>

-----------------------------------------------------------------------------
(***************************************************************************)
(* _watchdog_loop                                                          *)
(***************************************************************************)
Awake(pc) == dog = pc /\ ~doomed

\* Mutant of Wakes: a link that is down ends the loop.
WakesOnce ==
    /\ Awake("asleep")
    /\ dog' = IF Connected THEN "asleep" ELSE "done"
    /\ UNCHANGED <<link, conns, doomed, commands, connects, drops>>

Wakes ==
    /\ Awake("asleep")
    /\ \/ closing /\ dog' = "done"
       \/ ~closing /\ Connected /\ UNCHANGED dog
       \/ ~closing /\ ~Connected /\ dog' = "delay"
    /\ UNCHANGED <<link, conns, doomed, commands, connects, drops>>

Reconnects == Attempt /\ dog' = "entering"

\* Mutant of DelayOver: the old context is not left.
DelayOverKeeps ==
    /\ Awake("delay")
    /\ \/ closing /\ dog' = "done" /\ UNCHANGED connects
       \/ ~closing /\ Reconnects
    /\ UNCHANGED <<link, conns, doomed, commands, drops>>

\* _disconnect(logout=False) has something to leave, or goes straight on.
DelayOver ==
    /\ Awake("delay")
    /\ \/ closing /\ dog' = "done" /\ UNCHANGED <<held, connects>>
       \/ /\ ~closing /\ field # Nil
          /\ held' = held \ {field} /\ dog' = "leaving"
          /\ UNCHANGED connects
       \/ /\ ~closing /\ field = Nil
          /\ Reconnects /\ UNCHANGED held
    /\ UNCHANGED <<link, up, doomed, commands, drops>>

Left ==
    /\ Awake("leaving")
    /\ field' = Nil
    /\ Reconnects
    /\ UNCHANGED <<owner, closing, conns, doomed, commands, drops>>

Reconnected ==
    /\ Awake("entering")
    /\ Enters \/ Refused
    /\ dog' = "asleep"
    /\ UNCHANGED <<owner, closing, doomed, commands, connects>>

\* The CancelledError is nobody's to catch; __aenter__ cleans up after it.
Cancelled ==
    /\ doomed
    /\ dog' = "done" /\ doomed' = FALSE
    /\ UNCHANGED <<link, conns, commands, connects, drops>>

-----------------------------------------------------------------------------
(***************************************************************************)
(* close                                                                   *)
(***************************************************************************)
\* Mutant of Close: it leaves the watchdog to see _closing by itself.
CloseUncancelled ==
    /\ owner = "open"
    /\ closing' = TRUE
    /\ owner' = IF field # Nil THEN "logout" ELSE "closed"
    /\ UNCHANGED <<field, conns, watchdog, commands, connects, drops>>

\* cancel() is delivered when the task next runs; _disconnect goes on to its
\* first await, the logout.
Close ==
    /\ owner = "open"
    /\ closing' = TRUE
    /\ doomed' = (dog # "done")
    /\ owner' = IF field # Nil THEN "logout" ELSE "closed"
    /\ UNCHANGED <<field, conns, dog, commands, connects, drops>>

\* The answer to "@logout", or an exception that is swallowed; the server
\* lets go of a connection that has logged out.
LoggedOut ==
    /\ owner = "logout"
    /\ owner' = "leaving"
    /\ up' = up \ {field} /\ held' = held \ {field}
    /\ UNCHANGED <<closing, field, watchdog, commands, connects, drops>>

Closed ==
    /\ owner = "leaving"
    /\ owner' = "closed" /\ field' = Nil
    /\ UNCHANGED <<closing, conns, watchdog, commands, connects, drops>>

-----------------------------------------------------------------------------
(***************************************************************************)
(* players, which status calls too, and the admin commands                 *)
(***************************************************************************)
\* NotSupported is raised before anything is sent, or the command is out.
Players(c) ==
    /\ command[c] = "none" /\ Connected
    /\ command' = [command EXCEPT ![c] = "players"]
    /\ UNCHANGED <<link, conns, watchdog, canAdmin, connects, drops>>

Admin(c) ==
    /\ command[c] = "none" /\ Connected /\ canAdmin
    /\ command' = [command EXCEPT ![c] = "admin"]
    /\ UNCHANGED <<link, conns, watchdog, canAdmin, connects, drops>>

\* An answer, or the exception that a lost connection raises.
Answered(c) ==
    /\ command[c] # "none"
    /\ command' = [command EXCEPT ![c] = "none"]
    /\ UNCHANGED <<link, conns, watchdog, canAdmin, connects, drops>>

\* The answer looks like a denial (_PERMISSION_DENIAL_RE).
Denied(c) ==
    /\ command[c] = "admin"
    /\ canAdmin' = FALSE
    /\ command' = [command EXCEPT ![c] = "none"]
    /\ UNCHANGED <<link, conns, watchdog, connects, drops>>

\* The server stops, the network fails, or the server throws the bot out.
Drop ==
    /\ Lost
    /\ \E s \in up : up' = up \ {s}
    /\ UNCHANGED <<link, held, watchdog, commands, connects>>

WatchdogStep == Wakes \/ DelayOver \/ Left \/ Reconnected \/ Cancelled
OwnerStep == Opened \/ LoggedOut \/ Closed

Next ==
    \/ Open \/ Close \/ OwnerStep \/ WatchdogStep \/ Drop
    \/ \E c \in Callers : Players(c) \/ Admin(c) \/ Answered(c) \/ Denied(c)

Spec == Init /\ [][Next]_vars

\* asyncio resumes the watchdog and the handler that opens or closes the link.
Fairness == WF_vars(WatchdogStep) /\ WF_vars(OwnerStep)

FairSpec == Spec /\ Fairness

-----------------------------------------------------------------------------
TypeOK ==
    /\ owner \in Owner /\ closing \in BOOLEAN /\ field \in Nat \cup {Nil}
    /\ held \subseteq Nat /\ up \subseteq Nat
    /\ dog \in Dog /\ doomed \in BOOLEAN
    /\ canAdmin \in BOOLEAN
    /\ command \in [Callers -> {"none", "players", "admin"}]
    /\ connects \in Nat /\ drops \in Nat

\* The server has few RCON slots: a link holds one connection at most, the one
\* in its fields, also while the watchdog replaces it; and once close() has
\* returned it never holds one again, although close() does not wait for the
\* watchdog, which may be half way through a reconnect (close, _disconnect).
OneConnection ==
    /\ held \subseteq {field}
    /\ owner = "closed" => held = {} /\ field = Nil

\* A link that is down is connected again, however often it drops and however
\* often the login is refused, as long as neither goes on for ever and nobody
\* closes the link (_watchdog_loop).
DownIsRepaired == owner = "open" /\ ~Connected ~> Connected \/ closing
=============================================================================
