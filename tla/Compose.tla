------------------------------ MODULE Compose ------------------------------
(* A compose window (internal/ui/compose_window.go) and the sending of its   *)
(* messages (pkg/smtp/client.go): a goroutine per press of Send, which runs  *)
(* the SMTP exchange, appends a copy to the Sent folder and then closes the  *)
(* window from the UI thread, while the user goes on editing. The windows    *)
(* of a session are independent; one is modelled.                            *)
EXTENDS Naturals, Sequences, FiniteSets
LOCAL INSTANCE Functions

CONSTANTS Account, NoAccount,   \* NoAccount: the unified inbox is shown
          Person,               \* mail addresses
          CommaName,            \* those whose display name holds a comma
          Own,                  \* account -> its addresses, the default persona first
          Original,             \* messages to answer: [account, from, to, cc, files]
          File, NoFile,
          MaxSends, MaxEdits    \* bounds: presses of Send; edits of the form

VARIABLES shown,      \* the main window's account
          form,       \* the ComposeWindow
          arrays,     \* arrays that attachment slices point into
          draftFile,  \* "none", "whole" or "broken"
          sends,      \* goroutines of sendMessage
          delivered,  \* messages that the SMTP server accepted
          stored,     \* copies in Sent folders
          sentCached, \* accounts with an old cached list of the Sent folder
          presses, edits

composeVars == <<shown, form, arrays, draftFile, sends, delivered, stored, sentCached,
                 presses, edits>>

Nobody == [to |-> {}, cc |-> {}, bcc |-> {}]
NoForm == [at |-> "none", account |-> NoAccount, captured |-> TRUE, client |-> FALSE,
           from |-> NoAccount, people |-> Nobody, text |-> FALSE, array |-> 0, files |-> 0,
           isDraft |-> FALSE]

ComposeInit ==
    /\ shown \in Account \cup {NoAccount} /\ form = NoForm /\ arrays = <<>>
    /\ draftFile = "none" /\ sends = {} /\ delivered = {} /\ stored = {}
    /\ sentCached = Account /\ presses = 0 /\ edits = 0

-----------------------------------------------------------------------------
(* Opening a window.                                                         *)

isOurAddress(a, p) == p \in Range(Own[a])
Others(a, S) == {p \in S : ~isOurAddress(a, p)}

\* The persona is the first of our addresses that the original was sent to.
selectPersonaForReply(a, o) ==
    LET ours == o.to \ Others(a, o.to) IN IF ours = {} THEN {Own[a][1]} ELSE ours

Replied(mode, o) ==
    CASE mode = "reply"    -> [Nobody EXCEPT !.to = {o.from}]
      [] mode = "replyAll" -> [Nobody EXCEPT !.to = {o.from} \cup Others(o.account, o.to),
                                             !.cc = Others(o.account, o.cc)]
      [] mode = "forward"  -> Nobody

\* The account's client is taken along if it is connected now.
Open(a, from, people, captured) ==
    /\ form.at = "none"
    /\ \E connected \in BOOLEAN :
         form' = [NoForm EXCEPT !.at = "open", !.account = a, !.from = from, !.people = people,
                                !.captured = captured, !.client = connected]
Opened == UNCHANGED <<shown, draftFile, sends, delivered, stored, sentCached, presses, edits>>

\* A reply quotes the original; a forward takes its attachments along.
Answer(mode, o) ==
    LET files == IF mode = "forward" THEN o.files ELSE <<>>
    IN /\ arrays' = IF files = <<>> THEN <<>> ELSE <<files>>
       /\ \E from \in IF mode = "forward" THEN {Own[o.account][1]}
                      ELSE selectPersonaForReply(o.account, o), connected \in BOOLEAN :
            form' = [NoForm EXCEPT !.at = "open", !.account = o.account, !.from = from,
                                   !.people = Replied(mode, o), !.text = TRUE,
                                   !.client = connected, !.files = Len(files),
                                   !.array = Len(arrays')]

composeReplyOrForward(mode, o) == form.at = "none" /\ Answer(mode, o) /\ Opened

\* OnSent asks for the current account when the message has been sent, not now.
composeMessage ==
    /\ shown # NoAccount /\ Open(shown, Own[shown][1], Nobody, FALSE)
    /\ UNCHANGED arrays /\ Opened

showAccountSelectionForCompose(a) ==
    /\ shown = NoAccount
    /\ \E from \in Range(Own[a]) : Open(a, from, Nobody, TRUE)
    /\ UNCHANGED arrays /\ Opened

-----------------------------------------------------------------------------
(* Editing the form.                                                         *)

Editing == form.at = "open" /\ edits < MaxEdits /\ edits' = edits + 1
Edited == UNCHANGED <<shown, draftFile, sends, delivered, stored, sentCached, presses>>

Type(field, S) ==
    /\ Editing /\ form' = [form EXCEPT !.people[field] = S, !.text = TRUE]
    /\ UNCHANGED arrays /\ Edited

\* append: in place when the array has room, else into a new one twice as long.
addAttachment(f) ==
    /\ Editing
    /\ LET old == IF form.array = 0 THEN <<>> ELSE arrays[form.array]
           n == form.files + 1
           grown == [i \in 1..(IF old = <<>> THEN 1 ELSE 2 * Len(old)) |->
                       IF i < n THEN old[i] ELSE IF i = n THEN f ELSE NoFile]
       IN IF n <= Len(old)
          THEN /\ arrays' = [arrays EXCEPT ![form.array] = [@ EXCEPT ![n] = f]]
               /\ form' = [form EXCEPT !.files = n]
          ELSE /\ arrays' = Append(arrays, grown)
               /\ form' = [form EXCEPT !.files = n, !.array = Len(arrays) + 1]
    /\ Edited

\* The rest moves up in place: a message being sent shares the array.
removeAttachment(i) ==
    /\ Editing /\ i \in 1..form.files
    /\ arrays' = [arrays EXCEPT ![form.array] =
                    [j \in DOMAIN @ |-> IF j \in i..(form.files - 1) THEN @[j + 1] ELSE @[j]]]
    /\ form' = [form EXCEPT !.files = @ - 1]
    /\ Edited

\* The fields are split at commas: a name with a comma is no address.
buildMessage ==
    LET p == form.people IN (p.to \cup p.cc \cup p.bcc) \cap CommaName = {}

\* WriteFile empties the file first: a failure breaks an earlier draft.
saveDraft ==
    \/ buildMessage /\ draftFile' = "whole" /\ form' = [form EXCEPT !.isDraft = TRUE]
    \/ buildMessage /\ draftFile' \in {draftFile, "broken"} /\ UNCHANGED form
    \/ ~buildMessage /\ UNCHANGED <<form, draftFile>>

SaveDraft ==
    /\ Editing /\ saveDraft
    /\ UNCHANGED <<shown, arrays, sends, delivered, stored, sentCached, presses>>

HasContent ==
    form.text \/ form.files > 0 \/ form.people # Nobody
Closing == UNCHANGED <<shown, arrays, sends, delivered, stored, sentCached, presses, edits>>

\* The window's own close button asks; the Cancel button closes at once.
handleClose ==
    /\ form.at = "open"
    /\ form' = [form EXCEPT !.at = IF HasContent /\ ~form.isDraft THEN "asking" ELSE "closed"]
    /\ UNCHANGED draftFile /\ Closing
Cancelled == form.at = "open" /\ form' = [form EXCEPT !.at = "closed"] /\ UNCHANGED draftFile /\ Closing

\* The window closes also when the draft could not be saved.
AnswerClose ==
    /\ form.at = "asking"
    /\ \/ form' = [form EXCEPT !.at = "closed"] /\ UNCHANGED draftFile
       \/ /\ buildMessage
          /\ \/ draftFile' = "whole" /\ form' = [form EXCEPT !.at = "closed", !.isDraft = TRUE]
             \/ draftFile' \in {draftFile, "broken"} /\ form' = [form EXCEPT !.at = "closed"]
    /\ Closing

switchAccount(a) ==
    /\ shown # a /\ shown' = a
    /\ UNCHANGED <<form, arrays, draftFile, sends, delivered, stored, sentCached, presses, edits>>

-----------------------------------------------------------------------------
(* Sending. Send is not disabled meanwhile: a second press sends again.      *)

Recipients == form.people.to \cup form.people.cc \cup form.people.bcc
ValidateMessage == form.text /\ Recipients # {}

sendMessage ==
    /\ form.at = "open" /\ presses < MaxSends
    /\ buildMessage /\ ValidateMessage
    /\ presses' = presses + 1
    /\ sends' = sends \cup {[id |-> presses', at |-> "build", people |-> Recipients,
                             accepted |-> {}, array |-> form.array, files |-> form.files,
                             body |-> NoFile]}
    /\ UNCHANGED <<shown, form, arrays, draftFile, delivered, stored, sentCached, edits>>

Sending == UNCHANGED <<shown, form, arrays, draftFile, sentCached, presses, edits>>
To(s, at) == sends' = (sends \ {s}) \cup {[s EXCEPT !.at = at]}

\* The content is read from the shared array when it is built, and each time
\* it is built it gets a new Message-ID.
Attachments(s) == [i \in 1..s.files |-> arrays[s.array][i]]
BuildMessage(s, build) == [messageID |-> <<s.id, build>>, files |-> Attachments(s)]

SendMessage(s) ==
    /\ s.at = "build"
    /\ sends' = (sends \ {s}) \cup {[s EXCEPT !.at = "dial", !.body = BuildMessage(s, 1)]}
    /\ UNCHANGED <<delivered, stored>> /\ Sending

\* Dial, TLS or STARTTLS, AUTH and MAIL: each may fail, or meet the deadline.
After == [dial |-> "tls", tls |-> "auth", auth |-> "rcpt"]
Exchange(s) ==
    /\ s.at \in DOMAIN After
    /\ To(s, After[s.at]) \/ To(s, "failed")
    /\ UNCHANGED <<delivered, stored>> /\ Sending

\* Fault: a refused recipient is left out and the message sent to the rest.
Rcpt_SkipsRefused(s) ==
    /\ s.at = "rcpt"
    /\ \E refused \in SUBSET s.people :
         sends' = (sends \ {s}) \cup {[s EXCEPT !.at = "data", !.accepted = s.people \ refused]}
    /\ UNCHANGED <<delivered, stored>> /\ Sending

Rcpt(s) ==
    /\ s.at = "rcpt"
    /\ \/ s.accepted # s.people /\ \E p \in s.people \ s.accepted :
             sends' = (sends \ {s}) \cup {[s EXCEPT !.accepted = @ \cup {p}]}
       \/ s.accepted # s.people /\ To(s, "failed")
       \/ s.accepted = s.people /\ To(s, "data")
    /\ UNCHANGED <<delivered, stored>> /\ Sending

\* DATA: refused or broken off, accepted, or accepted with the answer lost.
Data(s) ==
    /\ s.at = "data"
    /\ \/ To(s, "failed") /\ UNCHANGED delivered
       \/ \E at \in {"sent", "failed"} : To(s, at)
             /\ delivered' = delivered \cup {[id |-> s.id, people |-> s.accepted, body |-> s.body]}
    /\ UNCHANGED stored /\ Sending

\* The copy is built again, from what the array holds by then. Without a
\* client, or when APPEND fails, the message is sent without a copy.
storeSentCopy(s) ==
    /\ s.at = "sent" /\ To(s, "done")
    /\ stored' \in {stored} \cup (IF form.client
         THEN {stored \cup {[id |-> s.id, account |-> form.account, people |-> s.people,
                             body |-> BuildMessage(s, 2)]}}
         ELSE {})
    /\ UNCHANGED delivered /\ Sending

\* Fault: the draft goes when the attempt is over.
SendFailed_DropsDraft(s) ==
    /\ s.at = "failed" /\ sends' = sends \ {s}
    /\ draftFile' = "none"
    /\ UNCHANGED <<shown, form, arrays, delivered, stored, sentCached, presses, edits>>

SendFailed(s) ==
    /\ s.at = "failed" /\ sends' = sends \ {s}
    /\ UNCHANGED <<shown, form, arrays, draftFile, delivered, stored, sentCached, presses, edits>>

\* The account shown is refreshed if its Sent folder is on the screen, and
\* its cached list kept otherwise; another account's list is dropped if the
\* controller has a client for it.
refreshSentFolderAfterSend(a) ==
    IF a = NoAccount THEN UNCHANGED sentCached ELSE sentCached' \in {sentCached, sentCached \ {a}}

Sent(s) ==
    /\ s.at = "done" /\ sends' = sends \ {s}
    /\ draftFile' = IF form.isDraft THEN "none" ELSE draftFile
    /\ refreshSentFolderAfterSend(IF form.captured THEN form.account ELSE shown)
    /\ form' = [form EXCEPT !.at = "closed"]
    /\ UNCHANGED <<shown, arrays, delivered, stored, presses, edits>>

ComposeNext ==
    \/ \E o \in Original : \E mode \in {"reply", "replyAll", "forward"} : composeReplyOrForward(mode, o)
    \/ \E a \in Account : showAccountSelectionForCompose(a)
    \/ \E a \in Account \cup {NoAccount} : switchAccount(a)
    \/ \E field \in {"to", "cc", "bcc"} : \E S \in SUBSET Person : Type(field, S)
    \/ (\E f \in File : addAttachment(f)) \/ \E i \in 1..form.files : removeAttachment(i)
    \/ composeMessage \/ SaveDraft \/ handleClose \/ Cancelled \/ AnswerClose \/ sendMessage
    \/ \E s \in sends : \/ SendMessage(s) \/ Exchange(s) \/ Rcpt(s) \/ Data(s)
                        \/ storeSentCopy(s) \/ SendFailed(s) \/ Sent(s)

(* A copy in a Sent folder is one of a message that the server accepted for  *)
(* every recipient of the form: a message is never delivered to some of them *)
(* only, and never filed as sent when it was not (client.go 216-248,         *)
(* compose_window.go 596-611).                                               *)
CopyMeansDelivered ==
    /\ \A c \in stored : \E d \in delivered : d.id = c.id /\ d.people = c.people
    /\ \A d \in delivered, s \in sends : d.id = s.id => d.people = s.people

(* The file of a draft is removed only when its message was delivered: an    *)
(* attempt that fails, or the first of two that does, leaves it (612-638).   *)
DraftOutlivesFailure ==
    [][draftFile = "whole" /\ draftFile' = "none" => delivered # {}]_composeVars

=============================================================================
