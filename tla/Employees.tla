------------------------------ MODULE Employees ------------------------------
(***************************************************************************)
(* The employees of a node and the calls that create, edit and take them   *)
(* off.  A code is looked up first and kept apart by the table's UNIQUE;   *)
(* who was taken off keeps the code.                                       *)
(***************************************************************************)
EXTENDS Integers, Sequences

CONSTANTS
    Managers,      \* calls at a time
    Codes,         \* of employees
    MaxEmployees,  \* bound of a run
    MaxChanges     \* bound of a run

ASSUME EmployeesAssumption == {MaxEmployees, MaxChanges} \subseteq Nat

VARIABLES
    employee,      \* the committed rows in the order of their ids: [code, active]
    manager,       \* where each call is, with what it asks for
    changes,
    heldByOthers         \* for the properties: the codes that other rows have had since a call began

employees == <<employee, manager, changes, heldByOthers>>

Staff == DOMAIN employee
NoManager == [at |-> "idle"]
Stands(m, where) == manager[m].at = where

EmployeesTypeOK ==
    /\ employee \in Seq([code : Codes, active : BOOLEAN]) /\ Len(employee) <= MaxEmployees
    /\ \A m \in Managers :
        /\ manager[m].at \in {"idle", "checked", "locked", "allowed", "written", "done", "refused"}
        /\ heldByOthers[m] \subseteq Codes
        /\ ~Stands(m, "idle") => manager[m].code \in Codes /\ manager[m].row \in 0..MaxEmployees

EmployeesInit ==
    /\ employee = <<>> /\ changes = 0
    /\ manager = [m \in Managers |-> NoManager] /\ heldByOthers = [m \in Managers |-> {}]

CodesBut(i, rows) == {rows[j].code : j \in DOMAIN rows \ {i}}
\* Whoever commits, the calls that are under way may meet the code.
StaffCommits(rows) ==
    /\ employee' = rows
    /\ heldByOthers' = [m \in Managers |-> IF Stands(m, "idle") THEN {} ELSE heldByOthers[m] \cup CodesBut(manager[m].row, rows)]
Becomes(m, where) == manager' = [manager EXCEPT ![m].at = where]

\* A call begins; row 0 is a new one.
CallBegins(m, where, i, code) ==
    /\ Stands(m, "idle") /\ changes < MaxChanges /\ changes' = changes + 1
    /\ manager' = [manager EXCEPT ![m] = [at |-> where, row |-> i, code |-> code]]
    /\ heldByOthers' = [heldByOthers EXCEPT ![m] = CodesBut(i, employee)]

Over(m) ==
    /\ Stands(m, "done") \/ Stands(m, "refused")
    /\ manager' = [manager EXCEPT ![m] = NoManager] /\ heldByOthers' = [heldByOthers EXCEPT ![m] = {}]
    /\ UNCHANGED <<employee, changes>>

\* What an UPDATE has put in the index and not yet committed: others wait for it.
CodesPending == {manager[n].code : n \in {n \in Managers : Stands(n, "written")}}
RowLocked(i) == \E n \in Managers : manager[n].at \in {"locked", "allowed", "written"} /\ manager[n].row = i

-----------------------------------------------------------------------------
create_employee(m, code) ==
    /\ CallBegins(m, IF code \in CodesBut(0, employee) THEN "refused" ELSE "checked", 0, code)
    /\ UNCHANGED employee

\* A fault: only the codes of those who are not taken off are looked at.
CodeUniqueActive(m) ==
    ~\E j \in Staff \ {manager[m].row} : employee[j].active /\ employee[j].code = manager[m].code

\* UNIQUE, once nobody is about to commit the code.
CodeUnique(m) == manager[m].code \notin CodesBut(manager[m].row, employee)
CodeSettled(m) == manager[m].code \notin CodesPending

EmployeeInserted(m) ==
    /\ Stands(m, "checked") /\ CodeSettled(m) /\ Len(employee) < MaxEmployees
    /\ IF CodeUnique(m)
       THEN /\ Becomes(m, "done")
            /\ employee' = Append(employee, [code |-> manager[m].code, active |-> TRUE])
            /\ heldByOthers' = [n \in Managers |-> IF n = m \/ Stands(n, "idle") THEN heldByOthers[n]
                                             ELSE heldByOthers[n] \cup {manager[m].code}]
       ELSE Becomes(m, "refused") /\ UNCHANGED <<employee, heldByOthers>>
    /\ UNCHANGED changes

-----------------------------------------------------------------------------
\* PUT with a new code: the row is locked, the code looked up, the row written.
update_employee(m, i, code) ==
    /\ ~RowLocked(i)
    /\ CallBegins(m, "locked", i, code)
    /\ UNCHANGED employee

CodeLookedUp(m) ==
    /\ Stands(m, "locked")
    /\ Becomes(m, IF CodeUnique(m) THEN "allowed" ELSE "refused")
    /\ UNCHANGED <<employee, changes, heldByOthers>>

EmployeeUpdated(m) ==
    /\ Stands(m, "allowed") /\ CodeSettled(m)
    /\ Becomes(m, IF CodeUnique(m) THEN "written" ELSE "refused")
    /\ UNCHANGED <<employee, changes, heldByOthers>>

UpdateCommits(m) ==
    /\ Stands(m, "written")
    /\ StaffCommits([employee EXCEPT ![manager[m].row].code = manager[m].code])
    /\ Becomes(m, "done")
    /\ UNCHANGED changes

\* A PUT with is_active alone, and DELETE, which wants an active row.
ActiveSet(i, active) ==
    /\ ~RowLocked(i) /\ changes < MaxChanges /\ changes' = changes + 1
    /\ employee' = [employee EXCEPT ![i].active = active]
    /\ UNCHANGED <<manager, heldByOthers>>

delete_employee(i) == employee[i].active /\ ActiveSet(i, FALSE)

list_employees(active) == {i \in Staff : employee[i].active = active}

EmployeesNext ==
    \/ \E m \in Managers :
        \/ \E code \in Codes : create_employee(m, code) \/ \E i \in Staff : update_employee(m, i, code)
        \/ EmployeeInserted(m) \/ CodeLookedUp(m) \/ EmployeeUpdated(m) \/ UpdateCommits(m) \/ Over(m)
    \/ \E i \in Staff : delete_employee(i) \/ ActiveSet(i, TRUE)

EmployeesSpec == EmployeesInit /\ [][EmployeesNext]_employees

-----------------------------------------------------------------------------
\* However calls meet, no two employees have one code, those taken off included, and
\* everybody is on one of the two lists; a call is refused only over a code that
\* another employee has had since it began; and what an update is about to commit
\* is nobody else's, so that it cannot fail any more.
EmployeesHold ==
    /\ \A i, j \in Staff : i # j => employee[i].code # employee[j].code
    /\ list_employees(TRUE) \cup list_employees(FALSE) = Staff
    /\ \A m \in Managers :
        /\ Stands(m, "refused") => manager[m].code \in heldByOthers[m]
        /\ Stands(m, "written") => manager[m].code \notin CodesBut(manager[m].row, employee)
=============================================================================
