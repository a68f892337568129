-------------------------- MODULE AddressBookProofs --------------------------
(***************************************************************************)
(* Proofs about the address book, for any addresses, dialogs and edits:    *)
(* a restart loads what the list holds, and nothing but a user's word      *)
(* renames or removes a contact.                                           *)
(***************************************************************************)
EXTENDS AddressBook, TLAPS

\* Where a save follows, it follows from what the list then holds.
LEMMA SaveSaves == Save => ContactsSaved'
  BY DEF Save, ContactsSaved

\* A merge that counts what it touches and saves if it counted anything.
LEMMA MergeSaves ==
  ASSUME NEW rows, NEW STATE replaced, NEW STATE added, NEW STATE counted,
         Merge(rows, replaced, added), SaveIf(counted), replaced \cup added \subseteq counted,
         ContactsSaved
  PROVE  ContactsSaved'
  <1>1. CASE counted = {}
    <2>1. replaced = {} /\ added = {} /\ UNCHANGED saved
      BY <1>1 DEF SaveIf
    <2>2. \A k \in Key : live'[k] = live[k] /\ label'[k] = label[k]
      BY <2>1 DEF Merge
    <2> QED
      BY <2>1, <2>2 DEF ContactsSaved, Called
  <1>2. CASE counted # {}
    BY <1>2, SaveSaves DEF SaveIf
  <1> QED
    BY <1>1, <1>2

LEMMA ListUnchanged ==
  ASSUME ContactsSaved, UNCHANGED <<live, label, saved>>
  PROVE  ContactsSaved'
  BY DEF ContactsSaved, Called

LEMMA SavedPreserved == ContactsSaved /\ [BookNext]_bookVars => ContactsSaved'
  <1> SUFFICES ASSUME ContactsSaved, [BookNext]_bookVars PROVE ContactsSaved'
    OBVIOUS
  <1>1. ASSUME NEW rows \in Rows, AutoCollectFromMessage(rows) PROVE ContactsSaved'
    <2> DEFINE wanted == {k \in DOMAIN rows : shouldCollectAddress(k)}
               known == {k \in wanted : live[k] # 0}
               added == wanted \ known
    <2>1. Merge(rows, known, added) /\ SaveIf(wanted)
      BY <1>1 DEF AutoCollectFromMessage
    <2>2. known \cup added \subseteq wanted
      OBVIOUS
    <2> HIDE DEF wanted, known, added
    <2> QED
      BY <2>1, <2>2, MergeSaves
  <1>2. ASSUME NEW rows \in Rows, ImportContactsFromCSV(rows) PROVE ContactsSaved'
    <2> DEFINE known == {k \in DOMAIN rows : live[k] # 0}
               replaced == IF importing = "replace" THEN known ELSE {}
               added == DOMAIN rows \ known
    <2>1. \/ Merge(rows, replaced, added) /\ SaveIf(replaced \cup added)
          \/ UNCHANGED <<live, label, saved>>
      BY <1>2 DEF ImportContactsFromCSV, listVars
    <2> HIDE DEF known, replaced, added
    <2> QED
      BY <2>1, MergeSaves, ListUnchanged
  <1>3. ASSUME NEW d \in Dialog,
               \/ Open(d) \/ Close(d) \/ addContact(d) \/ editContact(d) \/ cancelEdit(d)
               \/ filterContacts(d) \/ \E o \in Object : OnContactSelected(d, o)
        PROVE  ContactsSaved'
    <2>1. UNCHANGED <<live, label, saved>>
      BY <1>3 DEF Open, Close, addContact, editContact, cancelEdit, filterContacts, OnContactSelected,
         Begin, listVars
    <2> QED
      BY <2>1, ListUnchanged
  <1>4. ASSUME NEW d \in Dialog, deleteContact(d) PROVE ContactsSaved'
    <2>1. Save \/ UNCHANGED <<live, label, saved>>
      BY <1>4 DEF deleteContact
    <2> QED
      BY <2>1, SaveSaves, ListUnchanged
  <1>5. ASSUME NEW d \in Dialog, NEW n \in Label, \/ saveExisting(d, n)
                                                \/ \E k \in Key : saveNew(d, k, n)
        PROVE  ContactsSaved'
    BY <1>5, SaveSaves DEF saveExisting, saveNew
  <1>6. ASSUME importContacts \/ UNCHANGED bookVars PROVE ContactsSaved'
    BY <1>6, ListUnchanged DEF importContacts, listVars, bookVars
  \* New objects hold what was saved.
  <1>7. ASSUME Restart PROVE ContactsSaved'
    <2>1. 1 \in 1..MaxObjects
      BY MaxObjectsAssumption
    <2>2. \A k \in Key : /\ saved'[k] = saved[k]
                         /\ live'[k] = IF saved[k] = NoLabel THEN 0 ELSE 1
                         /\ label'[k][1] = saved[k]
      BY <1>7, <2>1 DEF Restart
    <2> QED
      BY <2>2 DEF ContactsSaved, Called
  <1> QED
    BY <1>1, <1>2, <1>3, <1>4, <1>5, <1>6, <1>7 DEF BookNext

LEMMA SavedInitially == BookInit => ContactsSaved
  <1> SUFFICES ASSUME BookInit, NEW k \in Key PROVE saved[k] = Called(k)
    BY DEF ContactsSaved
  <1>1. 1 \in 1..MaxObjects
    BY MaxObjectsAssumption
  <1>2. /\ live[k] = IF saved[k] = NoLabel THEN 0 ELSE 1
        /\ label[k][1] = saved[k]
    BY <1>1 DEF BookInit
  <1> QED
    BY <1>2 DEF Called

\* What the list holds is what a restart loads, whichever dialogs, imports and
\* messages have changed it, and through whichever objects (Manager.Save and
\* its callers, addressbook/manager.go).
THEOREM ListIsSaved == BookSpec => []ContactsSaved
  BY SavedInitially, SavedPreserved, PTL DEF BookSpec

-----------------------------------------------------------------------------
(* Contacts are kept.                                                        *)

\* The list and the dialogs stay functions over what they are about.
Functional == /\ live = [k \in Key |-> live[k]]
              /\ label = [k \in Key |-> label[k]]
              /\ dialogs = [d \in Dialog |-> dialogs[d]]

LEMMA FunctionalPreserved == Functional /\ [BookNext]_bookVars => Functional'
  <1> SUFFICES ASSUME Functional, [BookNext]_bookVars PROVE Functional'
    OBVIOUS
  <1> USE DEF Functional, listVars, Merge
  <1>1. ASSUME NEW rows \in Rows, AutoCollectFromMessage(rows) \/ ImportContactsFromCSV(rows)
        PROVE  Functional'
    BY <1>1 DEF AutoCollectFromMessage, ImportContactsFromCSV
  <1>2. ASSUME NEW d \in Dialog,
               \/ Open(d) \/ Close(d) \/ addContact(d) \/ editContact(d) \/ cancelEdit(d)
               \/ filterContacts(d) \/ \E o \in Object : OnContactSelected(d, o)
        PROVE  Functional'
    BY <1>2 DEF Open, Close, addContact, editContact, cancelEdit, filterContacts, OnContactSelected,
       Begin, Set
  <1>3. ASSUME NEW d \in Dialog, deleteContact(d) PROVE Functional'
    BY <1>3 DEF deleteContact, Reload
  <1>4. ASSUME NEW d \in Dialog, NEW n \in Label, NEW k \in Key, saveNew(d, k, n) PROVE Functional'
    BY <1>4 DEF saveNew, Reload
  <1>5. ASSUME NEW d \in Dialog, NEW n \in Label, saveExisting(d, n) PROVE Functional'
    BY <1>5 DEF saveExisting, Reload
  <1>6. ASSUME importContacts \/ Restart \/ UNCHANGED bookVars PROVE Functional'
    BY <1>6 DEF importContacts, Restart, bookVars
  <1> QED
    BY <1>1, <1>2, <1>3, <1>4, <1>5, <1>6 DEF BookNext

\* A merge leaves every contact alone that it does not replace.
LEMMA MergeKeeps ==
  ASSUME NEW rows, NEW STATE replaced, NEW STATE added, Merge(rows, replaced, added),
         NEW k \in Key, k \notin replaced, k \notin added
  PROVE  Called(k)' = Called(k)
  BY DEF Merge, Called

LEMMA StepKeeps ==
  ASSUME Functional, ContactsSaved, [BookNext]_bookVars,
         NEW c \in Key, Called(c) # NoLabel, Called(c)' # Called(c)
  PROVE  Asked(c)
  <1>0. live[c] # 0 /\ ~UNCHANGED <<live, label>>
    BY DEF Called
  <1>1. ASSUME NEW rows \in Rows, AutoCollectFromMessage(rows) PROVE FALSE
    <2> DEFINE wanted == {k \in DOMAIN rows : shouldCollectAddress(k)}
               known == {k \in wanted : live[k] # 0}
               added == wanted \ known
    <2>1. Merge(rows, known, added) /\ SaveIf(wanted)
      BY ONLY <1>1 DEF AutoCollectFromMessage
    <2>2. c \notin known /\ c \notin added
      BY <1>0 DEF shouldCollectAddress
    <2> HIDE DEF wanted, known, added
    <2> QED
      BY <2>1, <2>2, MergeKeeps
  <1>2. ASSUME NEW rows \in Rows, ImportContactsFromCSV(rows) PROVE Asked(c)
    <2> DEFINE known == {k \in DOMAIN rows : live[k] # 0}
               replaced == IF importing = "replace" THEN known ELSE {}
               added == DOMAIN rows \ known
    <2>1. \/ Merge(rows, replaced, added) /\ SaveIf(replaced \cup added)
          \/ UNCHANGED <<live, label, saved>>
      BY ONLY <1>2 DEF ImportContactsFromCSV, listVars
    <2>2. Merge(rows, replaced, added) /\ importing' = "no"
      <3> HIDE DEF known, replaced, added
      <3> QED
        BY <1>0, <1>2, <2>1 DEF ImportContactsFromCSV
    <2>3. c \notin added
      BY <1>0
    <2>4. CASE importing = "replace"
      <3>1. CASE c \in DOMAIN rows
        BY <1>2, <2>4, <3>1 DEF Asked
      <3>2. CASE c \notin DOMAIN rows
        <4>1. c \notin replaced
          BY <3>2
        <4> HIDE DEF known, replaced, added
        <4> QED
          BY <2>2, <2>3, <4>1, MergeKeeps
      <3> QED
        BY <3>1, <3>2
    <2>5. CASE importing # "replace"
      <3>1. c \notin replaced
        BY <2>5
      <3> HIDE DEF known, replaced, added
      <3> QED
        BY <2>2, <2>3, <3>1, MergeKeeps
    <2> QED
      BY <2>4, <2>5
  <1>3. ASSUME NEW d \in Dialog,
               \/ Open(d) \/ Close(d) \/ addContact(d) \/ editContact(d) \/ cancelEdit(d)
               \/ filterContacts(d) \/ \E o \in Object : OnContactSelected(d, o)
        PROVE  FALSE
    BY <1>0, <1>3 DEF Open, Close, addContact, editContact, cancelEdit, filterContacts, OnContactSelected,
       Begin, listVars
  \* The dialog had the contact selected that it removes, and has none after.
  <1>4. ASSUME NEW d \in Dialog, deleteContact(d) PROVE Asked(c)
    <2> DEFINE j == dialogs[d].picked[1]
    <2>1. /\ dialogs[d].picked # NoObject /\ UNCHANGED label
          /\ live' = [live EXCEPT ![j] = 0] /\ Reload(d, NoObject)
      BY <1>0, <1>4 DEF deleteContact
    <2>2. j = c
      <3>1. j # c => live'[c] = live[c]
        BY <2>1 DEF Functional
      <3> QED
        BY <2>1, <3>1 DEF Called
    <2> QED
      BY <1>4, <2>1, <2>2 DEF Asked, Picked
  <1>5. ASSUME NEW d \in Dialog, NEW n \in Label, NEW j \in Key, saveNew(d, j, n)
        PROVE  Asked(c)
    <2>1. CASE j = c
      <3>1. saveNew(d, c, n)
        BY <1>5, <2>1
      <3> QED
        BY <3>1 DEF Asked
    <2>2. CASE j # c
      <3>1. Called(c)' = Called(c)
        BY <1>5, <2>2 DEF saveNew, Merge, Called
      <3> QED
        BY <3>1
    <2> QED
      BY <2>1, <2>2
  \* The object that the dialog holds is one made for the contact it names.
  <1>8. ASSUME NEW d \in Dialog, NEW n \in Label, saveExisting(d, n) PROVE Asked(c)
    <2> DEFINE j == dialogs[d].picked[1]
    <2>1. j = c
      <3>1. j # c => live'[c] = live[c] /\ label'[c] = label[c]
        BY <1>8 DEF saveExisting, Functional
      <3> QED
        BY <3>1 DEF Called
    <2> QED
      BY <1>8, <2>1 DEF Asked, Picked, saveExisting
  \* What a restart loads is what was there.
  <1>6. ASSUME Restart PROVE FALSE
    <2>1. 1 \in 1..MaxObjects
      BY MaxObjectsAssumption
    <2>2. /\ live'[c] = IF saved[c] = NoLabel THEN 0 ELSE 1
          /\ label'[c][1] = saved[c]
      BY <1>6, <2>1 DEF Restart
    <2>3. Called(c)' = saved[c]
      BY <2>2 DEF Called
    <2> QED
      BY <2>3 DEF ContactsSaved
  <1>7. ASSUME importContacts \/ UNCHANGED bookVars PROVE FALSE
    BY <1>0, <1>7 DEF importContacts, listVars, bookVars
  <1> QED
    BY <1>1, <1>2, <1>3, <1>4, <1>5, <1>6, <1>7, <1>8 DEF BookNext

\* A contact is renamed or removed only by a dialog that adds, saves or deletes
\* that contact or by an import of it that was told to replace, never by a message
\* that was sent, by a dialog about another contact or one that is cancelled, or by
\* a restart (shouldCollectAddress, ContactList.Add, saveContact).
THEOREM ContactsAreKept == BookSpec => KeepsContacts
<1>1. BookInit => Functional
  BY DEF BookInit, Functional
<1>2. ContactsSaved /\ Functional /\ [BookNext]_bookVars =>
        [\A k \in Key : Called(k) # NoLabel /\ Called(k)' # Called(k) => Asked(k)]_bookVars
  BY StepKeeps
<1> QED
  BY <1>1, <1>2, SavedInitially, SavedPreserved, FunctionalPreserved, PTL DEF BookSpec, KeepsContacts
=============================================================================
