----------------------------- MODULE MCAccounts -----------------------------
(***************************************************************************)
(* Small instances of Accounts for TLC.                                    *)
(***************************************************************************)
EXTENDS Accounts, TLC

CONSTANTS ada, bea, cal, dan, north, south, sales, support, r1, r2, r3, r4

Seat(role, super, org) ==
  [role |-> role, active |-> TRUE, superuser |-> super, org |-> org,
   dept |-> NoDept, hash |-> 0]

MCDeptOrg == (sales :> north) @@ (support :> south)

\* Two Admins and an Employee of one organization, and an address nobody has.
TwoAdmins == (ada :> Seat("ADMIN", TRUE, north)) @@ (bea :> Seat("ADMIN", FALSE, north))
             @@ (cal :> Seat("EMPLOYEE", FALSE, north)) @@ (dan :> NoRow)

\* The only Admin, and an Employee.
OneAdmin == (ada :> Seat("ADMIN", TRUE, north)) @@ (cal :> Seat("EMPLOYEE", FALSE, north))

\* An Admin in each of two organizations, and an address nobody has.
TwoOrganizations == (ada :> Seat("ADMIN", FALSE, north)) @@ (bea :> Seat("ADMIN", TRUE, south))
                    @@ (dan :> NoRow)

Send(method, form, role, active, dept) ==
  [method |-> method, form |-> form, role |-> role, active |-> active, dept |-> dept]

Json(method, role, active, dept) == Send(method, FALSE, role, active, dept)

Demote     == Json("PATCH", "EMPLOYEE", Unset, Unset)
Promote    == Json("PATCH", "MANAGER", Unset, Unset)
Deactivate == Json("PATCH", Unset, "off", Unset)
Activate   == Json("PATCH", Unset, "on", Unset)
Both       == Json("PATCH", "MANAGER", "off", Unset)

\* What User Management sends: a new account, a role, a switch, or two at once.
ScreenBodies == {Json("POST", Unset, Unset, Unset), Demote, Promote, Deactivate, Activate, Both}

\* What any client may send: other methods, forms, the Admin role, departments.
AnyBodies == {Json("POST", "MANAGER", Unset, sales), Json("POST", "ADMIN", Unset, Unset),
              Json("PATCH", "ADMIN", "on", Unset), Json("PATCH", "EMPLOYEE", Unset, support),
              Json("PUT", "MANAGER", Unset, support), Send("PUT", TRUE, Unset, Unset, NoDept), Both}

DemoteOnly     == {Demote}
PutOnly        == {Json("PUT", "EMPLOYEE", Unset, Unset)}
FormOnly       == {Send("PATCH", TRUE, Unset, "off", Unset)}

RequestSymmetry == Permutations(Request)
=============================================================================
