--------------------------- MODULE AccountRegister --------------------------
(***************************************************************************)
(* What authentication promises about passwords, without its sessions,     *)
(* clocks, mails, statements and failures: an address is registered once,  *)
(* and from then on its password changes only by a code that was made for  *)
(* this address and had not been used when it was entered.  A code is made *)
(* once, for one registered address, and what is used stays used.          *)
(***************************************************************************)
CONSTANTS Emails, Clients, Passwords, Codes, Nobody

VARIABLES
    password, \* password[e]: Nobody until e is registered
    owner,    \* owner[k]: the address code k was made for, Nobody before
    used,     \* codes that work no more
    entered   \* <<client, code, password>>: accepted, not yet done

vars == <<password, owner, used, entered>>

Init ==
    /\ password \in [Emails -> Passwords \cup {Nobody}]
    /\ owner = [k \in Codes |-> Nobody] /\ used = {}
    /\ entered = {}

Register(e, p) ==
    /\ password[e] = Nobody
    /\ password' = [password EXCEPT ![e] = p]
    /\ UNCHANGED <<owner, used, entered>>

MakeCode(e, k) ==
    /\ password[e] # Nobody /\ owner[k] = Nobody
    /\ owner' = [owner EXCEPT ![k] = e]
    /\ UNCHANGED <<password, used, entered>>

\* An unused code is accepted from whoever enters it.
Enter(c, k, p) ==
    /\ owner[k] # Nobody /\ k \notin used
    /\ entered' = entered \cup {<<c, k, p>>}
    /\ UNCHANGED <<password, owner, used>>

\* What was accepted is done for the owner of the code, or given up.
Change(c, k, p) ==
    /\ <<c, k, p>> \in entered
    /\ entered' = entered \ {<<c, k, p>>}
    /\ password' = [password EXCEPT ![owner[k]] = p]
    /\ UNCHANGED <<owner, used>>

GiveUp(c, k, p) ==
    /\ entered' = entered \ {<<c, k, p>>}
    /\ UNCHANGED <<password, owner, used>>

Retire(k) ==
    /\ owner[k] # Nobody
    /\ used' = used \cup {k}
    /\ UNCHANGED <<password, owner, entered>>

Next ==
    \/ \E e \in Emails, p \in Passwords : Register(e, p)
    \/ \E e \in Emails, k \in Codes : MakeCode(e, k)
    \/ \E c \in Clients, k \in Codes, p \in Passwords :
         Enter(c, k, p) \/ Change(c, k, p) \/ GiveUp(c, k, p)
    \/ \E k \in Codes : Retire(k)

Spec == Init /\ [][Next]_vars

=============================================================================
