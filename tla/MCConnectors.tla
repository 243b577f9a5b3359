---------------------------- MODULE MCConnectors ----------------------------
(***************************************************************************)
(* The instance of the two clients of other servers, which share no state: *)
(* RedisConnector, with a reply of every kind and two of the kinds whose   *)
(* length matters, and DBConnector.  A behaviour picks one of them and is  *)
(* a behaviour of it.                                                      *)
(***************************************************************************)
EXTENDS RedisConnector

CONSTANTS MaxRows, MaxConnects

VARIABLES
  which,                                                          \* the connector
  handle, m_bConnect, open, misused, connects, abandoned, cursor, \* DBConnector
  rows, got, dbPc

SomeReplies ==
  {[kind |-> "-", value |-> <<"x">>],
   [kind |-> "+", value |-> <<"x">>],
   [kind |-> ":", value |-> 2],
   [kind |-> "$", value |-> <<"x", "y">>], [kind |-> "$", value |-> <<"z">>],
   [kind |-> "*", value |-> <<<<"x">>, <<"y">>>>], [kind |-> "*", value |-> <<>>],
   [kind |-> "nil", value |-> <<>>]}

DB == INSTANCE DBConnector WITH pc <- dbPc

dbVars ==
  <<handle, m_bConnect, open, misused, connects, abandoned, cursor, rows, got, dbPc>>
MCvars == <<which, vars, dbVars>>

MCInit == which \in {"redis", "db"} /\ Init /\ DB!Init

MCNext ==
  \/ which = "redis" /\ Next /\ UNCHANGED <<which, dbVars>>
  \/ which = "db" /\ DB!Next /\ UNCHANGED <<which, vars>>

MCSpec == MCInit /\ [][MCNext]_MCvars
-----------------------------------------------------------------------------
(* A reply that one recv delivers whole ends in its member, whatever an    *)
(* earlier reply left in the buffer (WholeReplyParsed).                    *)
RepliesParsed == TypeOK /\ WholeReplyParsed

=============================================================================
