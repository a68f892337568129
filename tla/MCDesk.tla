------------------------------- MODULE MCDesk -------------------------------
(* Small values for the parts of Desk that need structure: two accounts, one *)
(* with two folders; a UID that is used in both of them; an account with an  *)
(* alias, and a message to answer that names one of the user's addresses.    *)
EXTENDS Desk

MCMail == {[account |-> "a", folder |-> "INBOX", uid |-> 1, date |-> 1],
           [account |-> "b", folder |-> "INBOX", uid |-> 2, date |-> 2],
           [account |-> "b", folder |-> "Sent", uid |-> 1, date |-> 3]}

MCOwn == [a |-> <<"me">>, b |-> <<"it", "alias">>]

MCOriginal == {[account |-> "b", from |-> "p", to |-> {"alias", "j"}, cc |-> {"p", "it"},
                files |-> <<"f", "g">>]}
=============================================================================
