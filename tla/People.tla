------------------------------- MODULE People -------------------------------
(***************************************************************************)
(* The people a node keeps: its customers and its employees.  Their routes *)
(* share no table, no lock and no call, so that a step of one leaves the   *)
(* other alone.                                                            *)
(***************************************************************************)
EXTENDS Customers, Employees

people == <<customers, employees>>

PeopleInit == CustomersInit /\ EmployeesInit

PeopleNext ==
    \/ CustomersNext /\ UNCHANGED employees
    \/ EmployeesNext /\ UNCHANGED customers

PeopleSpec == PeopleInit /\ [][PeopleNext]_people

\* Customers of one name are explained, who was taken off stays off, a till's list
\* agrees with the node's; and codes of employees are unique, whatever calls meet.
PeopleHold == CustomersHold /\ EmployeesHold
=============================================================================
