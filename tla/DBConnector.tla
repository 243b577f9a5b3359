---------------------------- MODULE DBConnector ----------------------------
(***************************************************************************)
(* DBConnector (src/lib/db_connector.cpp): one thread's ODBC connection,   *)
(* its three handles and the cursor of its statement.  The calls of ODBC   *)
(* are external: each may fail, an allocation that fails gives a null      *)
(* handle, a fetch without a cursor is an error, and so is executing a     *)
(* statement whose cursor is still open.  A handle is a number.            *)
(*                                                                         *)
(* As in test/test_module.cpp the owner connects when it is not connected, *)
(* queries only when it is, ignores the result of ExcuteSQL and reads with *)
(* a loop on Fetch.                                                        *)
(***************************************************************************)
EXTENDS Integers, FiniteSets

CONSTANTS
  MaxRows,     \* bound: rows of a result
  MaxConnects  \* bound: calls of Connet

Kinds == {"ENV", "DBC", "STMT"}
Null == 0
Uninit == -1   \* what a handle holds before anything is assigned to it
NoCursor == -1

VARIABLES
  handle,      \* m_hEnv, m_hDbc and m_hSTMT
  m_bConnect,
  open,        \* the handles ODBC has allocated and not freed
  misused,     \* what was passed to ODBC as a handle and was not open
  connects,    \* calls of Connet
  abandoned,   \* the handles that failed calls of Connet allocated
  cursor,      \* the rows left to fetch, or NoCursor
  rows,        \* the rows of the last query
  got,         \* how often Fetch said true since, up to MaxRows + 1
  pc           \* "live", "fetching" (in the owner's loop), "gone"

vars == <<handle, m_bConnect, open, misused, connects, abandoned, cursor, rows, got, pc>>
connection == <<handle, m_bConnect, open, connects, abandoned>>
query == <<cursor, rows, got>>

(* The constructors leave the handles as they are. *)
Init ==
  /\ handle = [k \in Kinds |-> Uninit] /\ m_bConnect = FALSE
  /\ open = {} /\ misused = {} /\ connects = 0 /\ abandoned = {}
  /\ cursor = NoCursor /\ rows = 0 /\ got = 0 /\ pc = "live"

(* What is allocated, and what is null, when this many of the five calls   *)
(* of Connet succeed: environment, its version, connection, log-in,        *)
(* statement.                                                              *)
Got(calls) == CASE calls = 0 -> {} [] calls \in {1, 2} -> {"ENV"}
                [] calls \in {3, 4} -> {"ENV", "DBC"} [] calls = 5 -> Kinds
Refused(calls) == CASE calls = 0 -> {"ENV"} [] calls = 2 -> {"DBC"} [] calls = 4 -> {"STMT"}
                    [] OTHER -> {}
Fresh(k) == 3 * connects + (CASE k = "ENV" -> 1 [] k = "DBC" -> 2 [] k = "STMT" -> 3)

(* Mutation of Connet: m_bConnect is set as soon as the log-in is done. *)
ConnetEarly(calls) ==
  /\ pc = "live" /\ ~m_bConnect /\ connects < MaxConnects
  /\ connects' = connects + 1
  /\ handle' = [k \in Kinds |-> IF k \in Got(calls) THEN Fresh(k)
                                ELSE IF k \in Refused(calls) THEN Null ELSE handle[k]]
  /\ open' = open \cup {Fresh(k) : k \in Got(calls)}
  /\ abandoned' = IF calls = 5 THEN abandoned ELSE abandoned \cup {Fresh(k) : k \in Got(calls)}
  /\ m_bConnect' = (calls >= 4)
  /\ UNCHANGED <<misused, query, pc>>

Connet(calls) ==
  /\ pc = "live" /\ ~m_bConnect /\ connects < MaxConnects
  /\ connects' = connects + 1
  /\ handle' = [k \in Kinds |-> IF k \in Got(calls) THEN Fresh(k)
                                ELSE IF k \in Refused(calls) THEN Null ELSE handle[k]]
  /\ open' = open \cup {Fresh(k) : k \in Got(calls)}
  /\ abandoned' = IF calls = 5 THEN abandoned ELSE abandoned \cup {Fresh(k) : k \in Got(calls)}
  /\ m_bConnect' = (calls = 5)
  /\ UNCHANGED <<misused, query, pc>>

(* Mutation of DisConnect: m_bConnect is left as it is. *)
DisConnectStill(then) ==
  /\ \E freed \in {{handle[k] : k \in Kinds} \ {Null}} :
       /\ open' = open \ freed
       /\ misused' = misused \cup (freed \ open)
  /\ cursor' = NoCursor /\ pc' = then
  /\ UNCHANGED <<handle, m_bConnect, connects, abandoned, rows, got>>

(* DisConnect frees the handles that are not null and keeps their values. *)
DisConnect(then) ==
  /\ \E freed \in {{handle[k] : k \in Kinds} \ {Null}} :
       /\ open' = open \ freed
       /\ misused' = misused \cup (freed \ open)
  /\ m_bConnect' = FALSE
  /\ cursor' = NoCursor /\ pc' = then
  /\ UNCHANGED <<handle, connects, abandoned, rows, got>>

OwnerDisConnects == pc = "live" /\ m_bConnect /\ DisConnect("live")

Destroy ==
  \/ pc = "live" /\ m_bConnect /\ DisConnect("gone")
  \/ pc = "live" /\ ~m_bConnect /\ pc' = "gone" /\ UNCHANGED <<connection, misused, query>>

(* A call on the statement. *)
Statement == misused' = misused \cup ({handle["STMT"]} \ open)

(* ExcuteSQL gives a cursor on the result, or fails; the loop begins. *)
ExcuteSQL(n) ==
  /\ pc = "live" /\ m_bConnect /\ cursor = NoCursor
  /\ Statement
  /\ cursor' = n /\ rows' = n /\ got' = 0 /\ pc' = "fetching"
  /\ UNCHANGED connection

ExcuteSQLFailed ==
  /\ pc = "live" /\ m_bConnect
  /\ Statement
  /\ rows' = 0 /\ got' = 0 /\ pc' = "fetching"
  /\ UNCHANGED <<connection, cursor>>
-----------------------------------------------------------------------------
Counted == IF got <= MaxRows THEN got + 1 ELSE got

(* The next row; one that could not be converted counts as well. *)
FetchRow ==
  /\ pc = "fetching" /\ cursor > 0
  /\ Statement
  /\ cursor' = cursor - 1 /\ got' = Counted
  /\ UNCHANGED <<connection, rows, pc>>


FetchNoData ==
  /\ pc = "fetching" /\ cursor = 0
  /\ Statement
  /\ cursor' = NoCursor /\ pc' = "live"
  /\ UNCHANGED <<connection, rows, got>>

(* Anything but SQL_NO_DATA is true, an error included; the error may be   *)
(* the lack of a cursor, or the loss of the connection and its cursor.     *)
FetchError ==
  /\ pc = "fetching"
  /\ Statement
  /\ cursor' = NoCursor /\ got' = Counted
  /\ UNCHANGED <<connection, rows, pc>>

Fetch == FetchRow \/ FetchNoData \/ FetchError

Next ==
  \/ \E calls \in 0..5 : Connet(calls)
  \/ OwnerDisConnects
  \/ Destroy
  \/ \E n \in 0..MaxRows : ExcuteSQL(n)
  \/ ExcuteSQLFailed
  \/ Fetch

Spec == Init /\ [][Next]_vars
-----------------------------------------------------------------------------
(* The variables have their types. *)
TypeOK ==
  /\ handle \in [Kinds -> -1..(3 * MaxConnects)] /\ m_bConnect \in BOOLEAN
  /\ open \subseteq 1..(3 * MaxConnects) /\ abandoned \subseteq open
  /\ connects \in 0..MaxConnects /\ cursor \in -1..MaxRows /\ rows \in 0..MaxRows
  /\ got \in 0..(MaxRows + 1) /\ pc \in {"live", "fetching", "gone"}

(* No handle is passed to ODBC that is uninitialised or was freed, through *)
(* failed and repeated calls of Connet, DisConnect and the destructor      *)
(* (m_bConnect guards handles that are never reset).                       *)
HandlesOpenWhenUsed == misused = {}

(* When the object is gone, what it leaves open are the handles of the     *)
(* calls of Connet that failed, and nothing else.                          *)
LeavesOnlyFailed == pc = "gone" => open = abandoned

(* A loop on Fetch that has ended has seen every row of its query and      *)
(* nothing else, and leaves no cursor open for the next ExcuteSQL.         *)
LoopSawEveryRow == pc = "live" => got = rows /\ cursor = NoCursor
=============================================================================
