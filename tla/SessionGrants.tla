---------------------------- MODULE SessionGrants ----------------------------
(***************************************************************************)
(* What the sharing-session service promises about sharing tokens: every   *)
(* relationship (a QR code and a sender) has at most one token that grants *)
(* access to it, and a token whose grant ended never grants anything       *)
(* again.  SharingSession.tla is shown to implement this specification.    *)
(***************************************************************************)
CONSTANTS Relations,  \* the relationships that can have a session
          Tokens,     \* sharing tokens
          None        \* no token, and not one of Tokens

VARIABLES grant,      \* the token that gives access to each relationship
          spent       \* the tokens whose grant has ended

TypeOK == /\ grant \in [Relations -> Tokens \cup {None}]
          /\ spent \in SUBSET Tokens

Init == /\ grant = [k \in Relations |-> None]
        /\ spent = {}

\* A token never granted before replaces the relationship's token, if any.
Grant(k, t) == /\ t \notin spent
               /\ \A j \in Relations : grant[j] # t
               /\ grant' = [grant EXCEPT ![k] = t]
               /\ spent' = spent \cup ({grant[k]} \ {None})

\* The relationship's token stops giving access: revoked, expired, removed.
Withdraw(k) == /\ grant[k] # None
               /\ grant' = [grant EXCEPT ![k] = None]
               /\ spent' = spent \cup {grant[k]}

Next == \E k \in Relations : Withdraw(k) \/ \E t \in Tokens : Grant(k, t)

Spec == Init /\ [][Next]_<<grant, spent>>
=============================================================================
