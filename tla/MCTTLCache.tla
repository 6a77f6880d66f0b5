----------------------------- MODULE MCTTLCache -----------------------------
(***************************************************************************)
(* Small instances of the two things that commands about a server wait     *)
(* for, the fetch cache and the RCON connection, side by side: "part" says *)
(* which of them a behaviour is of.                                        *)
(***************************************************************************)
EXTENDS TTLCache

CONSTANTS MaxConnects, MaxDrops

\* The value that stands for no connection is the number of none.
ASSUME ConnectionAssumption == Nil \notin Nat

VARIABLES part, owner, closing, field, held, up, dog, doomed, canAdmin, command,
          connects, drops

rcon == <<owner, closing, field, held, up, dog, doomed, canAdmin, command,
          connects, drops>>

Rcon == INSTANCE RconConnection

PartsInit == part \in {"cache", "rcon"} /\ Init /\ Rcon!Init

PartsNext ==
    /\ UNCHANGED part
    /\ \/ part = "cache" /\ Next /\ UNCHANGED rcon
       \/ part = "rcon" /\ Rcon!Next /\ UNCHANGED vars

\* The fairness of the part that rests asks for nothing.
PartsSpec ==
    /\ PartsInit /\ [][PartsNext]_<<part, vars, rcon>>
    /\ Fairness /\ Rcon!Fairness

\* The state of both has its type.
PartsTypeOK == TypeOK /\ Rcon!TypeOK

\* RconConnection: a link has one connection, and none once it is closed.
OneConnection == Rcon!OneConnection

\* RconConnection: a link that is down is connected again.
DownIsRepaired == Rcon!DownIsRepaired
=============================================================================
