------------------------------ MODULE Bootstrap ------------------------------
(***************************************************************************)
(* The start of the server: the migrations, then onModuleInit, which       *)
(* creates the provider types and the roles that are not there yet, then   *)
(* the port is opened.  Several instances may start at the same time on an *)
(* empty database, die at any point and be started again.                  *)
(*                                                                         *)
(* Rows of provider_type and role are told apart by their names, and       *)
(* nothing removes one.  Prisma's migrations, which take a lock of the     *)
(* database, are one step.                                                 *)
(***************************************************************************)
EXTENDS Naturals, Sequences

CONSTANTS
  Instances,  \* processes of the server on one database
  MaxFaults   \* crashes and failed migrations of a behaviour

ASSUME BootstrapAssumption == MaxFaults \in Nat

\* Object.values of ProviderTypes, then of Role
Keys == <<"YANDEX", "USER", "TEACHER", "ADMIN">>

Name == {Keys[k] : k \in DOMAIN Keys}

VARIABLES
  migrated,  \* the tables exist
  rows,      \* how many rows have a name
  pc,
  key,       \* position in Keys of the name a start is at
  faults

vars == <<migrated, rows, pc, key, faults>>

Starting == {"migrate", "find", "create"}

TypeOK ==
  /\ migrated \in BOOLEAN
  /\ rows \in [Name -> Nat]
  /\ pc \in [Instances -> {"down", "listening"} \cup Starting]
  /\ key \in [Instances -> 1 .. Len(Keys)]
  /\ faults \in 0 .. MaxFaults

Init ==
  /\ migrated = FALSE
  /\ rows = [n \in Name |-> 0]
  /\ pc = [i \in Instances |-> "down"]
  /\ key = [i \in Instances |-> 1]
  /\ faults = 0

Goto(i, label) == pc' = [pc EXCEPT ![i] = label]

\* An error in onModuleInit ends the process, as a crash does.
Exit(i) == Goto(i, "down") /\ key' = [key EXCEPT ![i] = 1]

\* A loop that does not stop at the last key.
NextKeyOffByOne(i) ==
  IF key[i] <= Len(Keys)
    THEN Goto(i, "find") /\ key' = [key EXCEPT ![i] = @ + 1]
    ELSE Goto(i, "listening") /\ key' = [key EXCEPT ![i] = 1]

\* On to the next key, or past the last one.
NextKey(i) ==
  IF key[i] < Len(Keys)
    THEN Goto(i, "find") /\ key' = [key EXCEPT ![i] = @ + 1]
    ELSE Goto(i, "listening") /\ key' = [key EXCEPT ![i] = 1]

Start(i) ==
  /\ pc[i] = "down"
  /\ Goto(i, "migrate")
  /\ UNCHANGED <<migrated, rows, key, faults>>

\* prisma migrate deploy.  The script starts the server whatever became of it.
Migrate(i) ==
  /\ pc[i] = "migrate"
  /\ \/ migrated' = TRUE /\ UNCHANGED faults
     \/ faults < MaxFaults /\ faults' = faults + 1 /\ UNCHANGED migrated
  /\ Goto(i, "find")
  /\ UNCHANGED <<rows, key>>

\* The existence check left out.
FindNothing(i) ==
  /\ pc[i] = "find"
  /\ IF ~migrated THEN Exit(i) ELSE Goto(i, "create") /\ UNCHANGED key
  /\ UNCHANGED <<migrated, rows, faults>>

\* findUnique, which fails without the table
Find(i) ==
  /\ pc[i] = "find"
  /\ IF ~migrated THEN Exit(i)
     ELSE IF rows[Keys[key[i]]] = 0 THEN Goto(i, "create") /\ UNCHANGED key
     ELSE NextKey(i)
  /\ UNCHANGED <<migrated, rows, faults>>

\* An insert that is not awaited and may yet fail.
CreateUnawaited(i) ==
  /\ pc[i] = "create"
  /\ rows' \in {rows, [rows EXCEPT ![Keys[key[i]]] = 1]}
  /\ NextKey(i)
  /\ UNCHANGED <<migrated, faults>>

\* create.  name is unique: when another instance was faster, the insert fails.
Create(i) ==
  /\ pc[i] = "create"
  /\ IF rows[Keys[key[i]]] = 0
       THEN rows' = [rows EXCEPT ![Keys[key[i]]] = @ + 1] /\ NextKey(i)
       ELSE UNCHANGED rows /\ Exit(i)
  /\ UNCHANGED <<migrated, faults>>

\* The process is killed, or one of its database calls fails during the start.
Dies(i) ==
  /\ pc[i] # "down"
  /\ faults < MaxFaults
  /\ faults' = faults + 1
  /\ Exit(i)
  /\ UNCHANGED <<migrated, rows>>

BootStep(i) == Start(i) \/ Migrate(i) \/ Find(i) \/ Create(i)

Next == \E i \in Instances : BootStep(i) \/ Dies(i)

\* A start goes on by itself, and whoever runs the server starts an instance
\* that has ended again.
Spec == Init /\ [][Next]_vars /\ \A i \in Instances : WF_vars(BootStep(i))

-----------------------------------------------------------------------------

\* An instance that answers requests finds the role it gives to new users and
\* the provider type it logs them in with, once each, whoever created them.
ListeningIsReady ==
  (\E i \in Instances : pc[i] = "listening") => \A n \in Name : rows[n] = 1

\* An instance that lost the race for a row ends, but its next start finds the
\* row: in the end all instances listen, and none throws another out again.
AllListen == \A i \in Instances : <>[](pc[i] = "listening")

=============================================================================
