------------------------------ MODULE Sessions ------------------------------
(* Who owns the workers (internal/ui/account_session.go, unified_inbox.go,   *)
(* main_window.go, controllers/account_controller.go).                       *)
(*                                                                           *)
(* An account has at most one managed client, and the window uses one of     *)
(* them. The UI thread selects an account by looking the client up, closing  *)
(* a stale one, creating one and storing it, in four critical sections; the  *)
(* loaders of the unified inbox get or create one in a single section, on    *)
(* goroutines of their own. IsConnected is a flag of the wrapper. Its        *)
(* callback is replaced by the window's before Connect, so only Connect and  *)
(* Disconnect move the flag.                                                 *)
EXTENDS Naturals, Sequences

CONSTANTS Account,
          NoAccount,
          MaxClients,  \* bound: clients ever created
          MaxChoices   \* bound: what the user does in the account list

VARIABLES clients,     \* the clients created, in order
          managed,     \* accountClients: account -> client, 0 for none
          current, unified, imapClient,   \* the window's
          ui,          \* the UI thread inside selectAccount
          connects,    \* clients a goroutine of selectAccount is connecting
          jobs,        \* account -> how far its loader of the unified inbox is
          starter,     \* the goroutine that starts the monitors
          clearing,    \* performCacheClear
          choices,
          overwritten, \* history: clients created while the UI thread was
                       \* between its sections for the same account
          undercut     \* history: clients stopped by others than selectAccount,
                       \* or stopped without Disconnect taking effect

sessionsVars == <<clients, managed, current, unified, imapClient, ui, connects, jobs,
                  starter, clearing, choices, overwritten, undercut>>
windowVars == <<current, unified, imapClient>>
loadVars == <<jobs, starter>>

Running(c) == clients[c].running
IsConnected(c) == clients[c].connected
Client(a, up) == [account |-> a, running |-> TRUE, connected |-> up, monitoring |-> FALSE]
Created == DOMAIN clients
Managed == {managed[a] : a \in Account} \ {0}
UIIdle == [at |-> "idle", account |-> NoAccount, new |-> 0]

\* StopMonitoring of a set of clients.
Unmonitored(cs) == [c \in Created |-> IF c \in cs THEN [clients[c] EXCEPT !.monitoring = FALSE]
                                                  ELSE clients[c]]

\* Disconnect, then Stop. Disconnect may time out in the worker's queue.
Stopped(cs, failing) ==
    [c \in Created |-> IF c \in cs
       THEN [clients[c] EXCEPT !.running = FALSE, !.monitoring = FALSE,
                               !.connected = @ /\ c \in failing]
       ELSE clients[c]]

SessionsInit ==
    /\ clients = << >> /\ managed = [a \in Account |-> 0]
    /\ current = NoAccount /\ unified = FALSE /\ imapClient = 0
    /\ ui = UIIdle /\ connects = {} /\ choices = 0
    /\ jobs = [a \in Account |-> "none"] /\ starter = "none" /\ clearing = "none"
    /\ overwritten = {} /\ undercut = {}

-----------------------------------------------------------------------------
(* selectAccount on the UI thread.                                           *)

Choose == ui = UIIdle /\ choices < MaxChoices /\ choices' = choices + 1

begun(a) ==
    /\ current' = a /\ unified' = FALSE
    /\ clients' = Unmonitored(Managed \cup {imapClient})
    /\ ui' = [at |-> "lookup", account |-> a, new |-> 0]

selectAccount(a) ==
    /\ Choose /\ begun(a)
    /\ UNCHANGED <<managed, imapClient, connects, loadVars, clearing, overwritten, undercut>>

\* prepareIMAPClientForAccountSelection
Lookup ==
    /\ ui.at = "lookup"
    /\ LET c == managed[ui.account]
       IN ui' = IF c = 0 THEN [ui EXCEPT !.at = "create"]
                ELSE IF IsConnected(c) THEN [ui EXCEPT !.at = "use", !.new = c]
                ELSE [ui EXCEPT !.at = "close"]
    /\ UNCHANGED <<clients, managed, windowVars, connects, loadVars, clearing, choices,
                   overwritten, undercut>>

\* Fault: the stale client is left alone.
CloseClientForAccount_Skipped ==
    /\ ui.at = "close" /\ ui' = [ui EXCEPT !.at = "create"]
    /\ UNCHANGED <<clients, managed, windowVars, connects, loadVars, clearing, choices,
                   overwritten, undercut>>

CloseClientForAccount ==
    /\ ui.at = "close" /\ ui' = [ui EXCEPT !.at = "create"]
    /\ clients' = Stopped({managed[ui.account]}, {})
    /\ managed' = [managed EXCEPT ![ui.account] = 0]
    /\ UNCHANGED <<windowVars, connects, loadVars, clearing, choices, overwritten, undercut>>

CreateClient ==
    /\ ui.at = "create" /\ Len(clients) < MaxClients
    /\ clients' = Append(clients, Client(ui.account, FALSE))
    /\ ui' = [ui EXCEPT !.at = "store", !.new = Len(clients) + 1]
    /\ UNCHANGED <<managed, windowVars, connects, loadVars, clearing, choices,
                   overwritten, undercut>>

StoreIMAPClient ==
    /\ ui.at = "store"
    /\ managed' = [managed EXCEPT ![ui.account] = ui.new]
    /\ ui' = [ui EXCEPT !.at = "connect"]
    /\ UNCHANGED <<clients, windowVars, connects, loadVars, clearing, choices,
                   overwritten, undercut>>

\* Fault: the previous client is stopped even when it is the one to use.
Finish_StopsReused ==
    /\ ui.at \in {"use", "connect"} /\ ui' = UIIdle
    /\ imapClient' = ui.new
    /\ connects' = IF ui.at = "connect" THEN connects \cup {ui.new} ELSE connects
    /\ clients' = Stopped({imapClient} \ {0}, {})
    /\ UNCHANGED <<managed, current, unified, loadVars, clearing, choices, overwritten, undercut>>

\* The window's previous client is stopped, unless it is the one to use; a
\* new client is connected by a goroutine.
Finish ==
    /\ ui.at \in {"use", "connect"} /\ ui' = UIIdle
    /\ imapClient' = ui.new
    /\ connects' = IF ui.at = "connect" THEN connects \cup {ui.new} ELSE connects
    /\ LET old == {imapClient} \ {0, ui.new}
       IN \E failing \in SUBSET old :
            clients' = Stopped(old, failing) /\ undercut' = undercut \cup failing
    /\ UNCHANGED <<managed, current, unified, loadVars, clearing, choices, overwritten>>

ConnectDone(c) ==
    /\ c \in connects /\ connects' = connects \ {c}
    /\ \/ Running(c) /\ clients' = [clients EXCEPT ![c].connected = TRUE]
       \/ UNCHANGED clients
    /\ UNCHANGED <<managed, windowVars, ui, loadVars, clearing, choices, overwritten, undercut>>

-----------------------------------------------------------------------------
(* The unified inbox.                                                        *)

selectUnifiedInbox(forceRefresh) ==
    /\ Choose
    /\ unified' = TRUE /\ current' = NoAccount
    /\ clients' = Unmonitored(Managed \cup {imapClient})
    /\ starter' = (IF forceRefresh THEN starter ELSE "check")
    /\ jobs' = [a \in Account |-> "check"]
    /\ UNCHANGED <<managed, imapClient, ui, connects, clearing, overwritten, undercut>>

\* A loader, or a command on a message of the unified inbox, asks the mode
\* first and for the client later.
JobCheck(a) ==
    /\ jobs[a] = "check"
    /\ jobs' = [jobs EXCEPT ![a] = IF unified THEN "get" ELSE "none"]
    /\ UNCHANGED <<clients, managed, windowVars, ui, connects, starter, clearing, choices,
                   overwritten, undercut>>

stale(a) == {managed[a]} \ {0}

\* GetOrCreateIMAPClientWithFactory, under clientsMutex from end to end.
GetOrCreate(a) ==
    /\ jobs[a] = "get" /\ jobs' = [jobs EXCEPT ![a] = "none"]
    /\ \/ /\ \E c \in stale(a) : IsConnected(c)
          /\ UNCHANGED <<clients, managed, overwritten, undercut>>
       \/ /\ \A c \in stale(a) : ~IsConnected(c)
          /\ undercut' = undercut \cup stale(a)
          /\ \/ /\ Len(clients) < MaxClients
                /\ clients' = Append(Stopped(stale(a), {}), Client(a, TRUE))
                /\ managed' = [managed EXCEPT ![a] = Len(clients) + 1]
                /\ overwritten' = IF ui.account = a /\ ui.at \in {"close", "create", "store"}
                                  THEN overwritten \cup {Len(clients) + 1} ELSE overwritten
             \/ /\ clients' = Stopped(stale(a), {})    \* the factory stops what it failed to connect
                /\ managed' = [managed EXCEPT ![a] = 0]
                /\ UNCHANGED overwritten
    /\ UNCHANGED <<windowVars, ui, connects, starter, clearing, choices>>

\* startUnifiedInboxMonitoring: the mode is asked once, then each connected
\* client is told to monitor its INBOX.
StarterCheck ==
    /\ starter = "check" /\ starter' = IF unified THEN "start" ELSE "none"
    /\ UNCHANGED <<clients, managed, windowVars, ui, connects, jobs, clearing, choices,
                   overwritten, undercut>>

StartMonitors ==
    /\ starter = "start" /\ starter' = "none"
    /\ clients' = [c \in Created |-> IF c \in Managed /\ Running(c) /\ IsConnected(c)
                                     THEN [clients[c] EXCEPT !.monitoring = TRUE] ELSE clients[c]]
    /\ UNCHANGED <<managed, windowVars, ui, connects, jobs, clearing, choices, overwritten, undercut>>

\* The window shows a folder of the current account.
startFolderMonitoring ==
    /\ ui = UIIdle /\ current # NoAccount /\ imapClient # 0
    /\ Running(imapClient) /\ IsConnected(imapClient)
    /\ clients' = [clients EXCEPT ![imapClient].monitoring = TRUE]
    /\ UNCHANGED <<managed, windowVars, ui, connects, loadVars, clearing, choices,
                   overwritten, undercut>>

-----------------------------------------------------------------------------
(* Clearing the cache runs on a goroutine; the account is selected again on  *)
(* the UI thread. (It is not, without a crash, when the user has meanwhile   *)
(* gone to the unified inbox.)                                               *)

performCacheClear ==
    /\ clearing = "none" /\ current # NoAccount /\ choices < MaxChoices
    /\ clearing' = "closing" /\ unified' = FALSE /\ choices' = choices + 1
    /\ UNCHANGED <<clients, managed, current, imapClient, ui, connects, loadVars,
                   overwritten, undercut>>

CloseAllClients ==
    /\ clearing = "closing" /\ clearing' = "select"
    /\ clients' = Stopped(Managed, {})
    /\ managed' = [a \in Account |-> 0]
    /\ undercut' = undercut \cup Managed
    /\ UNCHANGED <<windowVars, ui, connects, loadVars, choices, overwritten>>

SelectAgain ==
    /\ clearing = "select" /\ ui = UIIdle /\ current # NoAccount
    /\ clearing' = "none" /\ begun(current)
    /\ UNCHANGED <<managed, imapClient, connects, loadVars, choices, overwritten, undercut>>

-----------------------------------------------------------------------------
SessionsNext ==
    \/ \E a \in Account : selectAccount(a) \/ JobCheck(a) \/ GetOrCreate(a)
    \/ Lookup \/ CloseClientForAccount \/ CreateClient \/ StoreIMAPClient \/ Finish
    \/ \E c \in Created : ConnectDone(c)
    \/ \E force \in BOOLEAN : selectUnifiedInbox(force)
    \/ StarterCheck \/ StartMonitors \/ startFolderMonitoring
    \/ performCacheClear \/ CloseAllClients \/ SelectAgain

SessionsSpec == SessionsInit /\ [][SessionsNext]_sessionsVars

(* A worker that runs is one that a later close can reach: the account's     *)
(* managed client, or the one the UI thread is about to store. The exception *)
(* is a client that a loader created while selectAccount was between its     *)
(* lookup and its store: the store overwrites it and nobody stops it         *)
(* (account_session.go 194-229, account_controller.go 86-146).               *)
NoWorkerLeaked ==
    \A c \in Created : Running(c) =>
       c \in Managed \/ c = ui.new \/ c \in overwritten

(* Between two choices the window of a selected account uses that account's  *)
(* client and its worker runs, unless a loader, a cache clear or a           *)
(* Disconnect that timed out undercut it (account_session.go 43-89).         *)
SelectedClientLives ==
    ui = UIIdle /\ current # NoAccount =>
       /\ clients[imapClient].account = current
       /\ Running(imapClient) \/ imapClient \in undercut

=============================================================================
