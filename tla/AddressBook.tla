---------------------------- MODULE AddressBook ----------------------------
(* The address book (internal/addressbook), the dialogs that edit it         *)
(* (internal/ui/addressbook_dialog.go) and the import of the settings window *)
(* (internal/ui/settings_window.go).                                         *)
(*                                                                           *)
(* A contact is an object; the list maps an address of an account to one,    *)
(* the dialogs hold pointers to it. The main window and the settings window  *)
(* can each have a dialog open. Everything runs on the UI thread, but what a *)
(* dialog holds may be gone from the list when it is saved.                  *)
EXTENDS Naturals

CONSTANTS Key,        \* addresses, in lower case, known to the account at hand; a
                      \* call concerns one account, and contacts of two are apart
          Label,      \* what a contact is called
          NoLabel,    \* no contact
          Dialog,     \* the dialogs that can be open
          MaxObjects, \* bound: objects made for one key
          MaxBookEdits \* bound: times a dialog starts to edit

ASSUME MaxObjectsAssumption == MaxObjects \in Nat \ {0}

VARIABLES live,       \* key -> its object in the list, 0 if none
          label,      \* key, object -> name and notes
          born,       \* key -> objects made so far, up to MaxObjects
          saved,      \* the preferences: key -> label
          collects,   \* automatic collection is on
          dialogs,    \* dialog -> what it shows, has selected and is doing
          importing,  \* the confirmation of an import
          bookEdits   \* edits begun so far, up to MaxBookEdits

bookVars == <<live, label, born, saved, collects, dialogs, importing, bookEdits>>
listVars == <<live, label, born, saved>>

Object == Key \X (1..MaxObjects)
NoObject == <<>>
Closed == [mode |-> "closed", shown |-> {}, picked |-> NoObject]

\* The label a key has in the list.
Called(k) == IF live[k] = 0 THEN NoLabel ELSE label[k][live[k]]

\* ListContacts: pointers to the objects.
ListContacts == {<<k, live[k]>> : k \in {j \in Key : live[j] # 0}}

BookInit ==
    /\ saved \in [Key -> Label \cup {NoLabel}]
    /\ live = [k \in Key |-> IF saved[k] = NoLabel THEN 0 ELSE 1]
    /\ label = [k \in Key |-> [i \in 1..MaxObjects |-> saved[k]]]
    /\ born = live
    /\ collects \in BOOLEAN
    /\ dialogs = [d \in Dialog |-> Closed]
    /\ importing = "no" /\ bookEdits = 0

-----------------------------------------------------------------------------
(* The list. Its operations and the save that follows are one step.          *)

Save == saved' = [k \in Key |-> Called(k)']
\* An import or a collection that counted nothing does not save.
SaveIf(counted) == IF counted = {} THEN UNCHANGED saved ELSE Save

\* Rows in which no address comes twice. Contacts that exist are updated in
\* place or left alone, the others are made.
Rows == UNION {[K -> Label] : K \in SUBSET Key}
Merge(rows, replaced, added) ==
    /\ \A k \in added : born[k] < MaxObjects
    /\ born' = [k \in Key |-> IF k \in added THEN born[k] + 1 ELSE born[k]]
    /\ live' = [k \in Key |-> IF k \in added THEN born[k] + 1 ELSE live[k]]
    /\ label' = [k \in Key |-> IF k \in added \cup replaced
                               THEN [label[k] EXCEPT ![live[k]'] = rows[k]] ELSE label[k]]

shouldCollectAddress_Any(k) == TRUE

shouldCollectAddress(k) == live[k] = 0

\* The recipients of a message that was sent, in To, Cc and Bcc; Add updates
\* a contact that is there.
AutoCollectFromMessage(rows) ==
    LET wanted == {k \in DOMAIN rows : shouldCollectAddress(k)}
        known == {k \in wanted : live[k] # 0}
    IN  /\ collects
        /\ Merge(rows, known, wanted \ known)
        /\ SaveIf(wanted)
        /\ UNCHANGED <<collects, dialogs, importing, bookEdits>>

-----------------------------------------------------------------------------
(* The dialogs.                                                              *)

Set(d, r) == dialogs' = [dialogs EXCEPT ![d] = r]
Keeps == UNCHANGED <<collects, importing>>

Open(d) ==
    /\ dialogs[d] = Closed
    /\ Set(d, [mode |-> "view", shown |-> ListContacts, picked |-> NoObject])
    /\ UNCHANGED listVars /\ Keeps /\ UNCHANGED bookEdits

\* A change of the account or of the search text reads the list again.
filterContacts(d) ==
    /\ dialogs[d].mode # "closed" /\ dialogs[d].shown # ListContacts
    /\ Set(d, [dialogs[d] EXCEPT !.shown = ListContacts])
    /\ UNCHANGED listVars /\ Keeps /\ UNCHANGED bookEdits

\* Another contact while editing hides "Save" and "Cancel" with the other
\* buttons still hidden: the dialog has none left.
OnContactSelected(d, o) ==
    /\ dialogs[d].mode # "closed" /\ o \in dialogs[d].shown /\ o # dialogs[d].picked
    /\ Set(d, [dialogs[d] EXCEPT !.picked = o,
                                 !.mode = IF @ = "view" THEN "view" ELSE "stuck"])
    /\ UNCHANGED listVars /\ Keeps /\ UNCHANGED bookEdits

Begin(d, r) ==
    /\ dialogs[d].mode = "view" /\ bookEdits < MaxBookEdits
    /\ bookEdits' = bookEdits + 1
    /\ Set(d, r)
    /\ UNCHANGED listVars /\ Keeps

addContact(d) == Begin(d, [dialogs[d] EXCEPT !.mode = "edit", !.picked = NoObject])

editContact(d) ==
    /\ dialogs[d].picked # NoObject
    /\ Begin(d, [dialogs[d] EXCEPT !.mode = "edit"])

cancelEdit(d) ==
    /\ dialogs[d].mode = "edit"
    /\ Set(d, [dialogs[d] EXCEPT !.mode = "view"])
    /\ UNCHANGED listVars /\ Keeps /\ UNCHANGED bookEdits

\* loadContacts after a change, in the dialog that made it only.
Reload(d, picked) ==
    dialogs' = [dialogs EXCEPT ![d] = [mode |-> "view", shown |-> ListContacts',
                                       picked |-> picked]]

\* "Add", also of an address that is known: its name and notes are replaced.
saveNew(d, k, n) ==
    /\ dialogs[d].mode = "edit" /\ dialogs[d].picked = NoObject
    /\ LET known == {j \in {k} : live[j] # 0}
       IN  Merge([j \in {k} |-> n], known, {k} \ known)
    /\ Save /\ Reload(d, NoObject)
    /\ Keeps /\ UNCHANGED bookEdits

\* The object is changed, then added: an object that is not in the list any
\* more comes back, or gives its label to the one in its place. An address
\* typed into the form is not looked at.
saveExisting(d, n) ==
    /\ dialogs[d].mode = "edit" /\ dialogs[d].picked # NoObject
    /\ LET k == dialogs[d].picked[1]
           g == dialogs[d].picked[2]
       IN  /\ live' = [live EXCEPT ![k] = IF @ = 0 THEN g ELSE @]
           /\ label' = [label EXCEPT ![k] = [@ EXCEPT ![g] = n, ![live'[k]] = n]]
    /\ Save /\ Reload(d, dialogs[d].picked)
    /\ Keeps /\ UNCHANGED <<born, bookEdits>>

\* The contact is looked up by its ID: the error when it is gone already.
deleteContact(d) ==
    /\ dialogs[d].mode = "view" /\ dialogs[d].picked # NoObject
    /\ bookEdits < MaxBookEdits /\ bookEdits' = bookEdits + 1
    /\ UNCHANGED <<label, born>> /\ Keeps
    /\ LET k == dialogs[d].picked[1]
       IN  \/ /\ live[k] # 0 /\ live' = [live EXCEPT ![k] = 0]
              /\ Save /\ Reload(d, NoObject)
           \/ live[k] = 0 /\ UNCHANGED <<live, saved, dialogs>>

Close(d) ==
    /\ dialogs[d].mode # "closed" /\ Set(d, Closed)
    /\ UNCHANGED listVars /\ Keeps /\ UNCHANGED bookEdits

-----------------------------------------------------------------------------
(* Import and restart.                                                       *)

importContacts ==
    /\ importing = "no" /\ importing' \in {"keep", "replace"}
    /\ bookEdits < MaxBookEdits /\ bookEdits' = bookEdits + 1
    /\ UNCHANGED <<listVars, collects, dialogs>>

ImportContactsFromCSV_CountsAdded(rows) ==
    LET known == {k \in DOMAIN rows : live[k] # 0}
        replaced == IF importing = "replace" THEN known ELSE {}
        added == DOMAIN rows \ known
    IN  /\ importing # "no" /\ importing' = "no"
        /\ Merge(rows, replaced, added) /\ SaveIf(added)
        /\ UNCHANGED <<collects, dialogs, bookEdits>>

\* The file is closed by the time it is read, unless what opened it does not
\* mind: the import fails, or it takes the rows.
ImportContactsFromCSV(rows) ==
    LET known == {k \in DOMAIN rows : live[k] # 0}
        replaced == IF importing = "replace" THEN known ELSE {}
        added == DOMAIN rows \ known
    IN  /\ importing # "no" /\ importing' = "no"
        /\ \/ Merge(rows, replaced, added) /\ SaveIf(replaced \cup added)
           \/ UNCHANGED listVars
        /\ UNCHANGED <<collects, dialogs, bookEdits>>

\* NewManager, Load: new objects for what was saved.
Restart ==
    /\ bookEdits < MaxBookEdits /\ bookEdits' = bookEdits + 1
    /\ live' = [k \in Key |-> IF saved[k] = NoLabel THEN 0 ELSE 1]
    /\ label' = [k \in Key |-> [i \in 1..MaxObjects |-> saved[k]]]
    /\ born' = live'
    /\ dialogs' = [d \in Dialog |-> Closed] /\ importing' = "no"
    /\ UNCHANGED <<saved, collects>>

BookNext ==
    \/ \E rows \in Rows : AutoCollectFromMessage(rows) \/ ImportContactsFromCSV(rows)
    \/ \E d \in Dialog :
          \/ Open(d) \/ Close(d) \/ addContact(d) \/ editContact(d) \/ cancelEdit(d)
          \/ deleteContact(d) \/ filterContacts(d)
          \/ \E o \in Object : OnContactSelected(d, o)
          \/ \E n \in Label : saveExisting(d, n) \/ \E k \in Key : saveNew(d, k, n)
    \/ importContacts \/ Restart

BookSpec == BookInit /\ [][BookNext]_bookVars

-----------------------------------------------------------------------------
(* What the address book promises.                                           *)

\* What the list holds is what a restart would load, whichever dialog, import
\* or message changed it, and also through an object that had been removed
\* (Manager.Save, AddContact, ImportContactsFromCSV).
ContactsSaved == \A k \in Key : saved[k] = Called(k)

Picked(d, k) == dialogs[d].picked # NoObject /\ dialogs[d].picked[1] = k
Asked(k) ==
    \/ \E rows \in Rows : /\ importing = "replace" /\ k \in DOMAIN rows
                          /\ ImportContactsFromCSV(rows)
    \/ \E d \in Dialog : \/ Picked(d, k) /\ deleteContact(d)
                         \/ \E n \in Label : \/ saveNew(d, k, n)
                                             \/ Picked(d, k) /\ saveExisting(d, n)

\* A contact is renamed or removed by a user who said so of that contact only: a
\* dialog that adds it again, saves it or deletes it, or an import of it that
\* replaces. Sending mail adds contacts and never touches one, a dialog that holds
\* a contact which is gone saves no other, and a restart loses none
\* (shouldCollectAddress, saveContact, deleteContact, ImportContactsFromCSV).
KeepsContacts ==
    [][\A k \in Key : Called(k) # NoLabel /\ Called(k)' # Called(k) => Asked(k)]_bookVars
=============================================================================
