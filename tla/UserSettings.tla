---------------------------- MODULE UserSettings ----------------------------
(***************************************************************************)
(* One account's row of user_settings, created by whichever request needs  *)
(* it first (routers/settings.py), and the memory of its Gemini key that   *)
(* the advisor fills and a save invalidates (services/advisor.py).  The    *)
(* index that forbids a second row may be missing, so nothing but the lock *)
(* of the process keeps it out.  The account may be deleted meanwhile, and *)
(* its id, the highest, is given to the next account.  The other columns   *)
(* and the encryption of the key are left out.                             *)
(***************************************************************************)
EXTENDS Naturals, FiniteSets

CONSTANTS Requests, Keys, NoKey, Nobody

ASSUME SettingsAssumption == NoKey \notin Keys /\ Nobody \notin Requests

VARIABLES
  account,     \* the users row exists
  userRows,    \* the number of rows in user_settings
  key,         \* gemini_api_key_encrypted of the first row
  initLock,    \* _settings_init_lock
  request,     \* each request: its operation and step, the key it holds
  keyCache,    \* _db_gemini_key_cache[user_id]
  excused      \* history: a resolver overlapped the save, or the account went

settingsVars == <<account, userRows, key, initLock, request, keyCache, excused>>

NoRequest == [op |-> "none", at |-> "idle", key |-> NoKey]

SettingsInit ==
  /\ account = TRUE /\ userRows = 0 /\ key = NoKey /\ initLock = Nobody
  /\ request = [r \in Requests |-> NoRequest]
  /\ keyCache = NoKey /\ excused = FALSE

StepRequest(r, at) == request' = [request EXCEPT ![r].at = at]
EndRequest(r) == request' = [request EXCEPT ![r] = NoRequest]

(* get_settings, update_settings and test_gemini; save_gemini_key(k).       *)
AskSettings(r, op, k) ==
  /\ request[r].at = "idle" /\ account
  /\ request' = [request EXCEPT ![r] = [op |-> op, at |-> "read", key |-> k]]
  /\ UNCHANGED <<account, userRows, key, initLock, keyCache, excused>>

(* _get_or_create_user_settings: read, else lock, read again, insert.       *)
ReadSettings(r) ==
  /\ request[r].at = "read"
  /\ StepRequest(r, IF userRows > 0 THEN "apply" ELSE "lock")
  /\ UNCHANGED <<account, userRows, key, initLock, keyCache, excused>>

(* Mutant: nobody waits for the lock. *)
LockUnheld(r) == UNCHANGED initLock

LockTaken(r) == initLock = Nobody /\ initLock' = r

AcquireInit(r) ==
  /\ request[r].at = "lock" /\ LockTaken(r)
  /\ StepRequest(r, "reread")
  /\ UNCHANGED <<account, userRows, key, keyCache, excused>>

ReleaseInit(r) == initLock' = IF initLock = r THEN Nobody ELSE initLock

RereadSettings(r) ==
  /\ request[r].at = "reread"
  /\ IF userRows > 0 THEN StepRequest(r, "apply") /\ ReleaseInit(r)
     ELSE StepRequest(r, "insert") /\ UNCHANGED initLock
  /\ UNCHANGED <<account, userRows, key, keyCache, excused>>

(* The insertion commits, or breaks the foreign key: the account is gone,   *)
(* the row is looked for once more and the request answers 500.             *)
InsertRow(r) ==
  /\ request[r].at = "insert" /\ ReleaseInit(r)
  /\ IF account THEN userRows' = userRows + 1 /\ StepRequest(r, "apply")
     ELSE EndRequest(r) /\ UNCHANGED userRows
  /\ UNCHANGED <<account, key, keyCache, excused>>

(* A read-only request ends; a write commits, or finds its row deleted.     *)
ApplySettings(r) ==
  /\ request[r].at = "apply"
  /\ IF request[r].op = "save" /\ userRows > 0
     THEN key' = request[r].key /\ StepRequest(r, "invalidate")
     ELSE EndRequest(r) /\ UNCHANGED key
  /\ UNCHANGED <<account, userRows, initLock, keyCache, excused>>

Resolving == \E r \in Requests : request[r].at = "fill"

(* Mutant: the save leaves the cached key alone. *)
Forgotten == keyCache

Invalidation == NoKey

(* invalidate_gemini_key_cache, after the commit and the refresh.           *)
InvalidateKey(r) ==
  /\ request[r].at = "invalidate" /\ EndRequest(r)
  /\ keyCache' = Invalidation
  /\ excused' = Resolving
  /\ UNCHANGED <<account, userRows, key, initLock>>

(* resolve_gemini_key: the cache answers without a look at the row; else    *)
(* the row is read, and its key stored when the answer of the query is in.  *)
ResolveKey(r) ==
  /\ request[r].at = "idle" /\ account
  /\ IF keyCache # NoKey THEN UNCHANGED request
     ELSE request' = [request EXCEPT ![r] =
                        [op |-> "resolve", at |-> "fill",
                         key |-> IF userRows > 0 THEN key ELSE NoKey]]
  /\ UNCHANGED <<account, userRows, key, initLock, keyCache, excused>>

FillCache(r) ==
  /\ request[r].at = "fill" /\ EndRequest(r)
  /\ keyCache' = IF request[r].key = NoKey THEN keyCache ELSE request[r].key
  /\ UNCHANGED <<account, userRows, key, initLock, excused>>

(* delete_user deletes the row and leaves the cached key. *)
DeleteAccount ==
  /\ account /\ account' = FALSE
  /\ userRows' = 0 /\ key' = NoKey
  /\ excused' = (excused \/ keyCache # NoKey \/ Resolving)
  /\ UNCHANGED <<initLock, request, keyCache>>

(* A new account under the same id. *)
ReuseId ==
  /\ ~account /\ account' = TRUE
  /\ UNCHANGED <<userRows, key, initLock, request, keyCache, excused>>

SettingsNext ==
  \/ \E r \in Requests :
       \/ AskSettings(r, "read", NoKey) \/ \E k \in Keys : AskSettings(r, "save", k)
       \/ ReadSettings(r) \/ AcquireInit(r) \/ RereadSettings(r) \/ InsertRow(r) \/ ApplySettings(r)
       \/ InvalidateKey(r) \/ ResolveKey(r) \/ FillCache(r)
  \/ DeleteAccount \/ ReuseId
-----------------------------------------------------------------------------
SettingsTypeOK ==
  /\ userRows \in Nat /\ key \in Keys \union {NoKey} /\ keyCache \in Keys \union {NoKey}
  /\ initLock \in Requests \union {Nobody}
  /\ \A r \in Requests : request[r].key \in Keys \union {NoKey}
  /\ initLock # Nobody => request[initLock].at \in {"reread", "insert"}

(* Requests that all find no row create one between them, also without the  *)
(* index UNIQUE(user_id).                                                   *)
OneRowPerUser == userRows <= 1

(* When no save is between its commit and its invalidation, the key in      *)
(* memory is the one in the row, unless a resolution was under way at the   *)
(* invalidation, or the account was deleted with its key in memory.         *)
KeyCacheCoherent ==
  (keyCache \notin {NoKey, key} /\ ~\E r \in Requests : request[r].at = "invalidate")
    => excused
=============================================================================
