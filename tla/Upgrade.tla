------------------------------- MODULE Upgrade -------------------------------
(***************************************************************************)
(* Opening the database (persistence/sqlite.go): each start creates the    *)
(* tables, adds the columns an older version did not have and gives the    *)
(* jobs without a result that of their latest execution.  Every statement  *)
(* is a transaction of its own, so a start may end after any of them (the  *)
(* process is killed, or a statement fails and the database is closed).    *)
(* A definition introduced by "Slip" is a plausible mistake in the one     *)
(* after it, used by no behaviour.                                         *)
(***************************************************************************)
EXTENDS Integers, Sequences

CONSTANTS
    Jobs,         \* the rows of the jobs table
    Executions,   \* the ids of the rows of the executions table
    Codes,        \* exit codes
    Starts,       \* start times, 0 for none
    Null

\* The tables and the columns that are new to them, in the order they are
\* created and looked for.  (The index that is created with the tables changes
\* nothing here.)
Created == <<"jobs", "executions">>
Tables == {Created[i] : i \in DOMAIN Created}
ColumnsOf == [jobs |-> {"name", "last_exit_code", "last_duration"},
              executions |-> {"executed_command", "output"}]

Added == <<"executed_command", "output", "name", "last_exit_code", "last_duration">>
Columns == {Added[i] : i \in DOMAIN Added}

ASSUME UpgradeAssumption ==
    Executions \subseteq Nat /\ Starts \subseteq Nat /\ Null \notin Codes

VARIABLES
    step,        \* where the start is: "closed", "table" 1 .. 2, "column" 1 .. 5, "read", "fill", "open"
    tables,      \* the tables the database has
    columns,     \* the added columns they have
    code,        \* last_exit_code of each job
    runs,        \* the executions: job, start and exit code of each
    read,        \* the jobs selected for the back-fill and the codes to write
    before       \* history: last_exit_code of each job in the old database

upgradeVars == <<step, tables, columns, code, runs, read, before>>

Unknown == [j \in Jobs |-> Null]
NextTable(i) == IF i \in DOMAIN Created THEN <<"table", i>> ELSE <<"column", 1>>
NextColumn(i) == IF i \in DOMAIN Added THEN <<"column", i>> ELSE <<"read">>

\* No database, or one of any version.
InitUpgrade ==
    /\ step = <<"closed">> /\ read = Unknown
    /\ \/ tables = {} /\ columns = {} /\ runs = <<>> /\ code = Unknown
       \/ /\ tables = Tables
          /\ \E n \in 0 .. Len(Added) : columns = {Added[i] : i \in 1 .. n}
          /\ \E recorded \in SUBSET Executions :
               runs \in [recorded -> [job : Jobs, start : Starts, code : Codes]]
          /\ code \in [Jobs -> Codes \cup {Null}]
          /\ "last_exit_code" \notin columns => code = Unknown
    /\ before = code

Open ==
    /\ step = <<"closed">>
    /\ step' = NextTable(1)
    /\ UNCHANGED <<tables, columns, code, runs, read, before>>

\* The start ends here.
Abort ==
    /\ step # <<"closed">>
    /\ step' = <<"closed">> /\ read' = Unknown
    /\ UNCHANGED <<tables, columns, code, runs, before>>

\* A table that is created has every column.
CreateTable(i) ==
    /\ step = <<"table", i>>
    /\ tables' = tables \cup {Created[i]}
    /\ columns' = IF Created[i] \in tables THEN columns ELSE columns \cup ColumnsOf[Created[i]]
    /\ step' = NextTable(i + 1)
    /\ UNCHANGED <<code, runs, read, before>>

\* Slip: the column of the exit code is 0 for the rows there are.
CodeOfNewColumnZero(j) == 0

CodeOfNewColumn(j) == Null

AddColumn(i) ==
    /\ step = <<"column", i>>
    /\ columns' = columns \cup {Added[i]}
    /\ code' = IF Added[i] = "last_exit_code" /\ Added[i] \notin columns
               THEN [j \in Jobs |-> CodeOfNewColumn(j)] ELSE code
    /\ step' = NextColumn(i + 1)
    /\ UNCHANGED <<tables, runs, read, before>>

\* ORDER BY started_at DESC, id DESC: an execution without a start comes last.
Later(e, f) == runs[e].start > runs[f].start \/ (runs[e].start = runs[f].start /\ e > f)
RunsOf(j) == {e \in DOMAIN runs : runs[e].job = j}
LatestCode(j) ==
    IF RunsOf(j) = {} THEN Null
    ELSE runs[CHOOSE e \in RunsOf(j) : \A f \in RunsOf(j) \ {e} : Later(e, f)].code

ReadLatest ==
    /\ step = <<"read">>
    /\ read' = [j \in Jobs |-> IF code[j] = Null THEN LatestCode(j) ELSE Null]
    /\ step' = <<"fill">>
    /\ UNCHANGED <<tables, columns, code, runs, before>>

Backfill(j) ==
    /\ step = <<"fill">> /\ read[j] # Null
    /\ code' = [code EXCEPT ![j] = IF @ = Null THEN read[j] ELSE @]
    /\ read' = [read EXCEPT ![j] = Null]
    /\ UNCHANGED <<step, tables, columns, runs, before>>

Ready ==
    /\ step = <<"fill">> /\ read = Unknown
    /\ step' = <<"open">>
    /\ UNCHANGED <<tables, columns, code, runs, read, before>>

NextUpgrade ==
    \/ Open \/ Abort \/ ReadLatest \/ Ready
    \/ \E i \in DOMAIN Created : CreateTable(i)
    \/ \E i \in DOMAIN Added : AddColumn(i)
    \/ \E j \in Jobs : Backfill(j)

UpgradeSpec == InitUpgrade /\ [][NextUpgrade]_upgradeVars

-----------------------------------------------------------------------------
\* "an upgrade interrupted after adding the columns still recovers, and never
\* touches a known result": however many starts it took, an open database has
\* every table and column, each result the old one had, and for every other job that of
\* its latest execution, the one it would have without an interruption.
UpgradeConverges ==
    step = <<"open">> =>
        /\ tables = Tables /\ columns = Columns
        /\ \A j \in Jobs : code[j] = IF before[j] # Null THEN before[j] ELSE LatestCode(j)
=============================================================================
