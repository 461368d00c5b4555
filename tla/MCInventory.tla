----------------------------- MODULE MCInventory ----------------------------
(* Small instances of Inventory and, with it, Accounts *)
EXTENDS Inventory, TLC

CONSTANTS a, b, e1, e2, ip1, ip2, w1, w2

Usernames == {a, b}
Emails == {e1, e2}
Workers == {w1, w2}
Addresses == {ip1, ip2}

Patches == {[role |-> "viewer"], [status |-> "inactive"],
            [role |-> "admin", status |-> "active"], [role |-> Null]}
Changes == {[status |-> "inactive"], [ip_address |-> ip1],
            [ip_address |-> ip2, status |-> "active"], [status |-> Null]}

UserRow(e, r) == [email |-> e, role |-> r, status |-> "active"]
UserTables == {[n \in {} |-> None],
               [n \in {a} |-> UserRow(e1, "admin")],
               [n \in {a, b} |-> IF n = a THEN UserRow(e1, "admin")
                                 ELSE UserRow(e2, "operator")]}

DeviceTables ==
    {[i \in 1..2 |-> [ip_address |-> IF i = 1 THEN ip1 ELSE ip2, status |-> "active"]],
     [i \in {1} |-> [ip_address |-> ip1, status |-> "active"]]}

Symmetry == Permutations(Workers)
=============================================================================
