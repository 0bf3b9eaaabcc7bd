----------------------------- MODULE MCAccounts -----------------------------
(* Instances of the accounts for TLC. *)
EXTENDS AccountsProperties, TLC

CONSTANTS f1, f2, u1, u2, u3, d1, d2, b1, p1, p2

Interchangeable ==
    UNION {Permutations(S) : S \in {Phones, Users, Drivers, Procs}}

OneByOne(fk, handlers) == [foreignKeys |-> fk, racing |-> FALSE, handlers |-> handlers]
Racing(fk, handlers) == [foreignKeys |-> fk, racing |-> TRUE, handlers |-> handlers]

Core == {"register_driver", "book", "accept", "delete"}
Linked == {"register_driver", "book", "delete"}

\* Without foreign keys one request at a time; with them requests that race.
AllSettings ==
    {OneByOne(FALSE, Core \cup h) :
        h \in {{"register", "patch", "complete", "rate", "reject", "notify"},
               {"register", "patch", "place", "setup", "profile"},
               {"complete", "rate", "cancel", "delete_booking", "notify"},
               {"cancel", "delete_booking", "go_online", "set_status"}}}
    \cup {OneByOne(FALSE, {"register", "delete", "notify"} \cup h) : h \in {{"read"}, {"purge"}}}
    \cup {OneByOne(TRUE, Core \cup {"complete", "rate", "cancel", "delete_booking", "notify"})}
    \cup {Racing(TRUE, Linked \cup h) :
        h \in {{"accept", "patch", "notify"}, {"accept", "reject"},
               {"accept", "cancel", "delete_booking", "go_online"}, {"delete_booking", "notify"},
               {"register", "accept", "complete", "rate"}, {"register", "place", "order"}}}
    \cup {Racing(TRUE, {"register", "register_driver", "setup", "profile", "delete"})}

WithOrders == {OneByOne(TRUE, {"register", "order", "place", "delete"})}
=============================================================================
