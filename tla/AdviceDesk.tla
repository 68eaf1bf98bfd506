----------------------------- MODULE AdviceDesk -----------------------------
(***************************************************************************)
(* services/advisor.py and routers/advice.py: the generation of advice for *)
(* one account or for all of them, the analysis of one title, and the flag *)
(* "followed".  Each is a coroutine with a session of its own; SQLite has  *)
(* one writer.  Gemini and the news are external: they answer late, in     *)
(* part or not at all.  The database is the plain one, where a session's   *)
(* statements are one transaction up to its commit.  Prompts, prices and   *)
(* texts are left out: an advice is its account, its market and its run.   *)
(***************************************************************************)
EXTENDS Naturals, FiniteSets

CONSTANTS
  Accounts,       \* users.id
  Desks,          \* coroutines; each runs one generation or analysis, or toggles
  Permits,        \* _gemini_semaphore
  Unheld

ASSUME DeskAssumption ==
  /\ Accounts \subseteq Nat \ {0} /\ Accounts # {}
  /\ Permits \in Nat \ {0} /\ Unheld \notin Desks

Markets == {"IT", "US"}

VARIABLES
  enrolled,     \* the accounts that exist
  advices,      \* committed rows: [run, owner, market]
  followed,     \* those whose flag is set
  desk,         \* each coroutine: operation, step, accounts to do, new rows
  session,      \* whose session is in a transaction
  writer,       \* whose transaction holds SQLite's write lock
  answers       \* history: the markets Gemini (or the fallback) gave an account

deskVars == <<enrolled, advices, followed, desk, session, writer, answers>>

Advice == [run : Desks \union {Unheld}, owner : Accounts, market : Markets]
OldAdvice == [run |-> Unheld, owner |-> CHOOSE a \in Accounts : TRUE, market |-> "IT"]
Unused == [op |-> "none", at |-> "idle", todo |-> {}, new |-> {}, row |-> OldAdvice, set |-> FALSE]
Closed == [Unused EXCEPT !.at = "ended"]
Sits(d, at) == desk[d].at = at
Sends(d, new) == desk' = [desk EXCEPT ![d] = new]
MovesTo(d, at) == Sends(d, [desk[d] EXCEPT !.at = at])
InGemini == {d \in Desks : Sits(d, "gemini")}

(* One advice is there from an earlier run. *)
DeskInit ==
  /\ enrolled = Accounts /\ advices = {OldAdvice} /\ followed = {}
  /\ desk = [d \in Desks |-> Unused]
  /\ session = {} /\ writer = Unheld
  /\ answers = [d \in Desks |-> [a \in Accounts |-> {}]]

(* generate_advice_job (account 0) or POST /generate: past the limiter and  *)
(* the opening hours, the titles and closes are read and the read closed.   *)
GenerateAdvice(d, a) ==
  /\ Sits(d, "idle") /\ a \in enrolled \union {0}
  /\ Sends(d, [Unused EXCEPT !.op = "generate", !.at = "news", !.todo = {a}])
  /\ UNCHANGED <<enrolled, advices, followed, session, writer, answers>>

(* _resolve_target_users, after the news: the account, if it is still       *)
(* there, or all the active ones.                                           *)
ResolveUsers(d, active) ==
  /\ Sits(d, "news") /\ desk[d].op = "generate" /\ active \subseteq enrolled
  /\ LET chosen == IF desk[d].todo = {0} THEN active ELSE desk[d].todo \intersect enrolled
     IN  IF chosen = {} THEN Sends(d, Closed) /\ UNCHANGED session
         ELSE /\ Sends(d, [desk[d] EXCEPT !.at = "read", !.todo = chosen])
              /\ session' = session \union {d}
  /\ UNCHANGED <<enrolled, advices, followed, writer, answers>>

(* The rows a flush sends must name accounts that exist. *)
Insertable(d) == \A r \in desk[d].new : r.owner \in enrolled

(* The next account's holdings and profile; the query first flushes the     *)
(* previous account's rows, which takes the write lock.                     *)
ReadAccount(d) ==
  /\ Sits(d, "read") /\ Insertable(d)
  /\ IF desk[d].new = {} THEN UNCHANGED writer ELSE writer = Unheld /\ writer' = d
  /\ MovesTo(d, "key") /\ session' = session \union {d}
  /\ UNCHANGED <<enrolled, advices, followed, answers>>

Ends(d) == session' = session \ {d} /\ writer' = IF writer = d THEN Unheld ELSE writer

(* Mutant: one commit at the end, none before Gemini is called. *)
CommittedAtEnd(d) ==
  IF Sits(d, "final")
  THEN advices' = advices \union desk[d].new /\ Ends(d)
  ELSE UNCHANGED <<advices, session, writer>>

(* Mutant: the transaction is closed by a rollback. *)
RolledBack(d) == UNCHANGED advices /\ Ends(d)

Committed(d) == advices' = advices \union desk[d].new /\ Ends(d)

(* The key is at hand: commit, then wait for one of the permits. *)
CommitBeforeGemini(d) ==
  /\ Sits(d, "key") /\ Committed(d)
  /\ Sends(d, [desk[d] EXCEPT !.at = "queue", !.new = desk[d].new \ advices'])
  /\ UNCHANGED <<enrolled, followed, answers>>

(* Mutant: nobody waits. *)
PermitIgnored == TRUE

PermitFree == Cardinality(InGemini) < Permits

CallGemini(d) ==
  /\ Sits(d, "queue") /\ PermitFree
  /\ MovesTo(d, "gemini")
  /\ UNCHANGED <<enrolled, advices, followed, session, writer, answers>>

(* The answer holds one market, both or, with both empty, none; without an  *)
(* answer the fallback gives both.  The rows wait in the session.  The      *)
(* accounts have their turns in the order of their ids.                     *)
IsFirst(a, as) == a \in as /\ \A b \in as : a <= b

Answer(d, a, markets) ==
  /\ Sits(d, "gemini") /\ desk[d].op = "generate" /\ IsFirst(a, desk[d].todo)
  /\ answers' = [answers EXCEPT ![d][a] = markets]
  /\ Sends(d, [desk[d] EXCEPT
       !.at = IF desk[d].todo = {a} THEN "final" ELSE "read",
       !.todo = @ \ {a},
       !.new = @ \union {[run |-> d, owner |-> a, market |-> m] : m \in markets}])
  /\ UNCHANGED <<enrolled, advices, followed, session, writer>>

FinalCommit(d) ==
  /\ Sits(d, "final") /\ Insertable(d) /\ writer \in {Unheld, d}
  /\ Committed(d) /\ Sends(d, Closed)
  /\ UNCHANGED <<enrolled, followed, answers>>

(* POST /stock/{ticker}: the session has read the account when the deep     *)
(* dive starts; the position is read and that read closed, the news come,   *)
(* the profile is read and closed before Gemini, whose answer is the reply. *)
AnalyzeSingleStock(d) ==
  /\ Sits(d, "idle") /\ enrolled # {}
  /\ Sends(d, [Unused EXCEPT !.op = "single", !.at = "deep"])
  /\ session' = session \union {d}
  /\ UNCHANGED <<enrolled, advices, followed, writer, answers>>

ReadPosition(d) ==
  /\ Sits(d, "deep") /\ MovesTo(d, "news") /\ Committed(d)
  /\ UNCHANGED <<enrolled, followed, answers>>

ReadProfile(d) ==
  /\ Sits(d, "news") /\ desk[d].op = "single"
  /\ MovesTo(d, "key") /\ session' = session \union {d}
  /\ UNCHANGED <<enrolled, advices, followed, writer, answers>>

Reply(d) ==
  /\ Sits(d, "gemini") /\ desk[d].op = "single" /\ Sends(d, Closed)
  /\ UNCHANGED <<enrolled, advices, followed, session, writer, answers>>

(* A request that is cancelled, a row of an account that is gone, a lock    *)
(* that is not had in 30 s, an error: the session rolls back.               *)
Abandon(d) ==
  /\ desk[d].at \notin {"idle", "ended"}
  /\ Sends(d, IF desk[d].op = "follow" THEN Unused ELSE Closed) /\ Ends(d)
  /\ UNCHANGED <<enrolled, advices, followed, answers>>

(* toggle_follow_advice reads the row, and writes the opposite of what it   *)
(* read; a row deleted meanwhile ends it with an error.                     *)
ToggleFollow(d, r) ==
  /\ Sits(d, "idle") /\ r \in advices
  /\ Sends(d, [Unused EXCEPT !.op = "follow", !.at = "put", !.row = r, !.set = r \notin followed])
  /\ session' = session \union {d}
  /\ UNCHANGED <<enrolled, advices, followed, writer, answers>>

Flagged(d) == IF desk[d].set THEN followed \union {desk[d].row} ELSE followed \ {desk[d].row}

PutFollow(d) ==
  /\ Sits(d, "put") /\ desk[d].row \in advices /\ writer = Unheld
  /\ followed' = Flagged(d)
  /\ Sends(d, Unused) /\ Ends(d)
  /\ UNCHANGED <<enrolled, advices, answers>>

(* delete_user: the advices, then the row, in one transaction. *)
DeleteUser(a) ==
  /\ a \in enrolled /\ writer = Unheld
  /\ enrolled' = enrolled \ {a}
  /\ advices' = {r \in advices : r.owner # a}
  /\ followed' = followed \intersect advices'
  /\ UNCHANGED <<desk, session, writer, answers>>

DeskNext ==
  \/ \E d \in Desks :
       \/ \E a \in Accounts \union {0} : GenerateAdvice(d, a)
       \/ \E active \in SUBSET Accounts : ResolveUsers(d, active)
       \/ ReadAccount(d) \/ CommitBeforeGemini(d) \/ CallGemini(d)
       \/ \E a \in Accounts, markets \in SUBSET Markets : Answer(d, a, markets)
       \/ FinalCommit(d) \/ AnalyzeSingleStock(d) \/ ReadPosition(d) \/ ReadProfile(d)
       \/ Reply(d) \/ Abandon(d) \/ PutFollow(d)
       \/ \E r \in advices : ToggleFollow(d, r)
  \/ \E a \in Accounts : DeleteUser(a)
-----------------------------------------------------------------------------
DeskTypeOK ==
  /\ enrolled \subseteq Accounts /\ followed \subseteq advices /\ session \subseteq Desks
  /\ writer \in Desks \union {Unheld}
  /\ advices \subseteq Advice
  /\ Cardinality(InGemini) <= Permits

(* Nobody waits for the news, for a permit or for Gemini inside a           *)
(* transaction, also when the rows of an earlier account were flushed.      *)
WaitsOutsideTransactions ==
  \A d \in Desks : desk[d].at \in {"news", "queue", "gemini"} => d \notin session /\ writer # d

(* While one account's advice is asked for, what was answered for the       *)
(* accounts before it is in the database: whatever fails from here on       *)
(* leaves them their advice.                                                *)
EarlierAdviceSafe ==
  \A d \in Desks : desk[d].at \in {"queue", "gemini"} =>
    \A a \in enrolled \ desk[d].todo : \A m \in answers[d][a] :
      [run |-> d, owner |-> a, market |-> m] \in advices
=============================================================================
