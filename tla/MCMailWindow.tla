---------------------------- MODULE MCMailWindow ----------------------------
\* Two accounts, one with a second folder.  A message without a Message-ID arrives
\* in the INBOX of the first, where another one has none either.
EXTENDS MailWindow

CONSTANTS a, b, inbox, work

Msg(acct, folder, uid) == [acct |-> acct, folder |-> folder, uid |-> uid]
Few == {Msg(a, inbox, 1), Msg(a, work, 1), Msg(b, inbox, 1)}
Some == Few \cup {Msg(a, inbox, 2)}
All == Some \cup {Msg(a, inbox, 3)}
Nameless == {Msg(a, inbox, 2), Msg(a, inbox, 3)}
DateOf == [m \in Messages |-> m.uid * 4 + (IF m.acct = a THEN 1 ELSE 0)
                                + (IF m.folder = inbox THEN 2 ELSE 0)]
=============================================================================
