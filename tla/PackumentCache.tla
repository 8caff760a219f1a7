----------------------------- MODULE PackumentCache -----------------------------
(* internal/registry: the packument of one name as Client.Packument obtains *)
(* it, from memory, from the two files of the disk cache or from a registry *)
(* that revalidates.  Several gnpm processes share the disk; any may be     *)
(* killed between two file operations.  An ETag and a Last-Modified date do *)
(* the same work here and are one validator.                                *)
EXTENDS Integers, FiniteSets

CONSTANTS Process,
          Registries,     \* what registries send with a packument
          Missing,        \* no file, no entry, no validator
          Torn,           \* a file cut off while it was written
          MaxPublished,   \* bound: packuments the registry goes through
          MaxClock,       \* bound: ticks of the clock
          MaxCalls,       \* bound: calls of all processes
          MaxAttempts     \* attempts of doRetry: 4

ASSUME CacheAssumption ==
  /\ MaxPublished \in Nat \ {0}
  /\ MaxClock \in Nat
  /\ MaxCalls \in Nat
  /\ MaxAttempts \in Nat \ {0}

(* A registry sends no validator, one per packument, or one per packument   *)
(* and form; and a max-age in ticks, 0 for none.                            *)
ASSUME RegistriesAssumption ==
  Registries \subseteq [validators : {"none", "shared", "perForm"}, maxAge : Nat]

Modes == {"online", "preferOffline", "offline"}
VARIABLES
  registry,
  published,     \* the packument the registry serves, counted upwards
  history,       \* clock tick |-> the packument served at its start
  clock,
  body, meta,    \* the files <name>.json and <name>.meta.json
  memory,        \* process |-> entry of inProcess
  doing,         \* process |-> what its call does next
  ask,           \* process |-> the options of its call, and its start
  read,          \* process |-> the packument read from disk
  attempt,       \* process |-> pass of the loop in Packument, attempts of doRetry
  answer,        \* process |-> what its last call returned
  calls,
  overlapped     \* a process wrote the files while another used them
env  == <<registry, published, history, clock>>
disk == <<body, meta>>
local == <<ask, read, attempt, answer>>
cacheVars == <<env, disk, memory, doing, local, calls, overlapped>>
--------------------------------------------------------------------------------
Pack(n, times) == [number |-> n, times |-> times]
Packs == [number : 1..MaxPublished, times : BOOLEAN]
Validators == Packs \cup {Missing}
Metas   == [validator : Validators, freshUntil : Nat]
Entries == [pack : Packs, validator : Validators, freshUntil : Nat]
ASSUME NothingAssumption ==
  /\ Missing \notin Packs \cup Metas \cup Entries
  /\ Torn \notin Packs \cup Metas
Validator(times) ==
  CASE registry.validators = "none"    -> Missing
    [] registry.validators = "shared"  -> Pack(published, FALSE)
    [] registry.validators = "perForm" -> Pack(published, times)

Entry(pack, validator, freshUntil) ==
  [pack |-> pack, validator |-> validator, freshUntil |-> freshUntil]
(* Bug: once fresh, always fresh.                                           *)
IsFreshForever(entry) == entry.freshUntil # 0
(* 0: unknown, always revalidate. *)
IsFresh(entry) == entry.freshUntil # 0 /\ clock < entry.freshUntil
FreshUntil == IF registry.maxAge = 0 THEN 0 ELSE clock + registry.maxAge
Meta(entry) == [validator |-> entry.validator, freshUntil |-> entry.freshUntil]
NoMeta == [validator |-> Missing, freshUntil |-> 0]

(* What was served when an entry that is still fresh may have been fetched. *)
Recent ==
  CASE registry.maxAge = 0     -> published
    [] registry.maxAge > clock -> 1
    [] OTHER                   -> history[clock - registry.maxAge + 1]

Usable(p, pack) == ask[p].times => pack.times

Reading == {"readBody", "readMeta"}
WritingFiles == {"cutBody", "writeBody", "cutMeta", "writeMeta"}
Using(q) == doing[q] \in Reading \cup WritingFiles
Idle(p) == doing[p] = "idle"

NoAsk == [mode |-> "online", times |-> FALSE, since |-> 1, recent |-> 1]
NotTried == [pass |-> 0, try |-> 0]
(* Ends the call of p, and its local variables. *)
Return(p, result) ==
  /\ doing' = [doing EXCEPT ![p] = "idle"]
  /\ answer' = [answer EXCEPT ![p] = result]
  /\ read' = [read EXCEPT ![p] = Missing]
  /\ attempt' = [attempt EXCEPT ![p] = NotTried]
Answered(pack, how) == [pack |-> pack, how |-> how]
Failed == Answered(Missing, "error")

CacheTypeOK ==
       /\ registry \in Registries
       /\ published \in 1..MaxPublished
       /\ clock \in Nat \ {0} /\ history \in [1..clock -> 1..published]
       /\ body \in Packs \cup {Missing, Torn}
       /\ meta \in Metas \cup {Missing, Torn}
       /\ memory \in [Process -> Entries \cup {Missing}]
       /\ doing \in [Process -> {"idle", "look", "send"} \cup Reading \cup WritingFiles]
       /\ ask \in [Process -> [mode : Modes, times : BOOLEAN, since : 1..published, recent : 1..published]]
       /\ read \in [Process -> Validators]
       /\ attempt \in [Process -> [pass : 0..2, try : 0..MaxAttempts]]
       /\ answer \in [Process -> [pack : Validators, how : {"cache", "registry", "error"}]]
       /\ calls \in Nat /\ overlapped \in BOOLEAN

CacheInit ==
       /\ registry \in Registries
       /\ published = 1 /\ clock = 1 /\ history = [t \in 1..1 |-> 1]
       /\ body = Missing /\ meta = Missing
       /\ memory = [p \in Process |-> Missing]
       /\ doing = [p \in Process |-> "idle"]
       /\ ask = [p \in Process |-> NoAsk]
       /\ read = [p \in Process |-> Missing]
       /\ attempt = [p \in Process |-> NotTried]
       /\ answer = [p \in Process |-> Failed]
       /\ calls = 0
       /\ overlapped = FALSE
--------------------------------------------------------------------------------
(* Client.Packument up to the request.  A process keeps its mode; each call *)
(* may need publish times or not.                                           *)
Ask(p) ==
  /\ Idle(p) /\ calls < MaxCalls
  /\ \E times \in BOOLEAN, mode \in Modes :
       /\ memory[p] # Missing => mode = ask[p].mode
       /\ ask' = [ask EXCEPT ![p] = [mode |-> mode, times |-> times,
                                      since |-> published, recent |-> Recent]]
  /\ calls' = calls + 1
  /\ answer' = [answer EXCEPT ![p] = Failed]
  /\ doing' = [doing EXCEPT ![p] = "look"]
  /\ UNCHANGED <<env, disk, memory, read, attempt, overlapped>>

Fetch(p) ==
  IF ask[p].mode = "offline"
  THEN Return(p, Failed)
  ELSE /\ doing' = [doing EXCEPT ![p] = "send"]
       /\ attempt' = [attempt EXCEPT ![p] = [pass |-> 1, try |-> 1]]
       /\ read' = [read EXCEPT ![p] = Missing]
       /\ UNCHANGED answer

LookInMemory(p) ==
  /\ doing[p] = "look"
  /\ IF memory[p] = Missing
     THEN doing' = [doing EXCEPT ![p] = "readBody"] /\ UNCHANGED <<read, attempt, answer>>
     ELSE IF (ask[p].mode = "preferOffline" \/ IsFresh(memory[p])) /\ Usable(p, memory[p].pack)
     THEN Return(p, Answered(memory[p].pack, "cache"))
     ELSE Fetch(p)
  /\ UNCHANGED <<env, disk, memory, ask, calls, overlapped>>

Overlaps(p) == overlapped \/ \E q \in Process \ {p} : doing[q] \in WritingFiles

(* ReadPackument: the packument; a file that does not parse is a miss. *)
ReadBody(p) ==
  /\ doing[p] = "readBody"
  /\ IF body \in {Missing, Torn} THEN Fetch(p)
     ELSE /\ read' = [read EXCEPT ![p] = body]
          /\ doing' = [doing EXCEPT ![p] = "readMeta"]
          /\ UNCHANGED <<attempt, answer>>
  /\ overlapped' = Overlaps(p)
  /\ UNCHANGED <<env, disk, memory, ask, calls>>

(* ReadPackument: what is known of it; then what Packument makes of both. *)
ReadMeta(p) ==
  /\ doing[p] = "readMeta"
  /\ LET known == IF meta \in {Missing, Torn} THEN NoMeta ELSE meta
         entry == Entry(read[p], known.validator, known.freshUntil)
     IN /\ memory' = [memory EXCEPT ![p] = entry]
        /\ IF (ask[p].mode # "online" \/ IsFresh(entry)) /\ Usable(p, entry.pack)
           THEN Return(p, Answered(entry.pack, "cache"))
           ELSE Fetch(p)
  /\ overlapped' = Overlaps(p)
  /\ UNCHANGED <<env, disk, ask, calls>>

(* No answer, a 429 or a 5xx: again, four times at most (doRetry). *)
Transient(p) ==
  /\ doing[p] = "send"
  /\ IF attempt[p].try < MaxAttempts
     THEN attempt' = [attempt EXCEPT ![p].try = @ + 1] /\ UNCHANGED <<doing, read, answer>>
     ELSE Return(p, Failed)
  /\ UNCHANGED <<env, disk, memory, ask, calls, overlapped>>

(* Any other 4xx, a body that breaks off, one that is not JSON. *)
Refused(p) ==
  /\ doing[p] = "send"
  /\ Return(p, Failed)
  /\ UNCHANGED <<env, disk, memory, ask, calls, overlapped>>

Matches(p) ==
  /\ memory[p] # Missing
  /\ memory[p].validator # Missing
  /\ memory[p].validator = Validator(ask[p].times)

(* Bug: the second request still carries the validator.                     *)
NotModifiedAgain(p) ==
  /\ doing[p] = "send" /\ Matches(p)
  /\ IF ask[p].times /\ ~memory[p].pack.times /\ attempt[p].pass = 1
     THEN /\ attempt' = [attempt EXCEPT ![p] = [pass |-> 2, try |-> 1]]
          /\ UNCHANGED <<memory, doing, read, answer>>
     ELSE Return(p, Answered(memory[p].pack, "registry")) /\ UNCHANGED memory
  /\ UNCHANGED <<env, disk, ask, calls, overlapped>>

(* 304: what is cached stands, unless it lacks the times that are needed;   *)
(* then its validator is dropped and the packument is asked for again.      *)
NotModified(p) ==
  /\ doing[p] = "send" /\ Matches(p)
  /\ IF ask[p].times /\ ~memory[p].pack.times /\ attempt[p].pass = 1
     THEN /\ memory' = [memory EXCEPT ![p].validator = Missing]
          /\ attempt' = [attempt EXCEPT ![p] = [pass |-> 2, try |-> 1]]
          /\ UNCHANGED <<doing, read, answer>>
     ELSE IF FreshUntil # 0
     THEN /\ memory' = [memory EXCEPT ![p].freshUntil = FreshUntil]
          /\ doing' = [doing EXCEPT ![p] = "cutBody"]
          /\ UNCHANGED <<read, attempt, answer>>
     ELSE Return(p, Answered(memory[p].pack, "registry")) /\ UNCHANGED memory
  /\ UNCHANGED <<env, disk, ask, calls, overlapped>>

(* 200, in the form asked for: the full one has times, the slim one none. *)
Sent(p) ==
  /\ doing[p] = "send" /\ ~Matches(p)
  /\ memory' = [memory EXCEPT ![p] =
       Entry(Pack(published, ask[p].times), Validator(ask[p].times), FreshUntil)]
  /\ doing' = [doing EXCEPT ![p] = "cutBody"]
  /\ UNCHANGED <<env, disk, local, calls, overlapped>>
--------------------------------------------------------------------------------
(* WritePackument: each file is truncated and then filled; the second one   *)
(* is left alone when there is nothing to write.                            *)
Overwrites(p) == overlapped \/ \E q \in Process \ {p} : Using(q)

CutBody(p) ==
  /\ doing[p] = "cutBody"
  /\ body' = Torn
  /\ doing' = [doing EXCEPT ![p] = "writeBody"]
  /\ overlapped' = Overwrites(p)
  /\ UNCHANGED <<env, meta, memory, local, calls>>

WriteBody(p) ==
  /\ doing[p] = "writeBody"
  /\ body' = memory[p].pack
  /\ IF Meta(memory[p]) = NoMeta
     THEN Return(p, Answered(memory[p].pack, "registry"))
     ELSE doing' = [doing EXCEPT ![p] = "cutMeta"] /\ UNCHANGED <<read, attempt, answer>>
  /\ overlapped' = Overwrites(p)
  /\ UNCHANGED <<env, meta, memory, ask, calls>>

CutMeta(p) ==
  /\ doing[p] = "cutMeta"
  /\ meta' = Torn
  /\ doing' = [doing EXCEPT ![p] = "writeMeta"]
  /\ overlapped' = Overwrites(p)
  /\ UNCHANGED <<env, body, memory, local, calls>>

WriteMeta(p) ==
  /\ doing[p] = "writeMeta"
  /\ meta' = Meta(memory[p])
  /\ Return(p, Answered(memory[p].pack, "registry"))
  /\ overlapped' = Overwrites(p)
  /\ UNCHANGED <<env, body, memory, ask, calls>>

(* A write that fails leaves what is there; the answer is the same. *)
WriteFails(p) ==
  /\ doing[p] \in WritingFiles
  /\ Return(p, Answered(memory[p].pack, "registry"))
  /\ UNCHANGED <<env, disk, memory, ask, calls, overlapped>>

(* The process ends, here or at the end of its command; the next starts     *)
(* with nothing in memory.                                                  *)
Restart(p) ==
  /\ ~(Idle(p) /\ memory[p] = Missing)
  /\ memory' = [memory EXCEPT ![p] = Missing]
  /\ ask' = [ask EXCEPT ![p] = NoAsk]
  /\ Return(p, Failed)
  /\ UNCHANGED <<env, disk, calls, overlapped>>

Publish ==
  /\ published < MaxPublished
  /\ published' = published + 1
  /\ UNCHANGED <<registry, history, clock, disk, memory, doing, local, calls, overlapped>>

(* Time matters only where an answer may be fresh. *)
Tick ==
  /\ clock < MaxClock /\ registry.maxAge > 0
  /\ clock' = clock + 1
  /\ history' = [t \in 1..clock + 1 |-> IF t \in DOMAIN history THEN history[t] ELSE published]
  /\ UNCHANGED <<registry, published, disk, memory, doing, local, calls, overlapped>>

ProcessStep(p) == \/ Ask(p) \/ LookInMemory(p) \/ ReadBody(p) \/ ReadMeta(p)
                  \/ Transient(p) \/ Refused(p) \/ NotModified(p) \/ Sent(p)
                  \/ CutBody(p) \/ WriteBody(p) \/ CutMeta(p) \/ WriteMeta(p) \/ WriteFails(p)
CacheNext == Publish \/ Tick \/ \E p \in Process : ProcessStep(p) \/ Restart(p)
CacheSpec == CacheInit /\ [][CacheNext]_cacheVars
--------------------------------------------------------------------------------
HasAnswer(p) == Idle(p) /\ answer[p].pack # Missing

(* An online answer is no older than the call, or than the max-age allows:  *)
(* the files are two, a kill may fall between any two operations, and yet a *)
(* validator on disk is never newer than the packument beside it, or a 304  *)
(* would make an old packument last for ever (WritePackument's order).      *)
(* Where two processes use the files at once this is not so.                *)
AnswersAreCurrent ==
  \A p \in Process : HasAnswer(p) /\ ~overlapped =>
    /\ answer[p].how = "registry" => answer[p].pack.number >= ask[p].since
    /\ answer[p].how = "cache" /\ ask[p].mode = "online" =>
         answer[p].pack.number >= ask[p].recent

(* A call that needs publish times never gets a packument without them,     *)
(* from whatever call, process or form it was cached, and whatever the      *)
(* registry confirms with a 304: the minimum-release-age filter would let   *)
(* every version pass (requirePublishTimes in Client.Packument).            *)
TimesWhenRequired ==
  \A p \in Process : HasAnswer(p) /\ ask[p].times => answer[p].pack.times
================================================================================
