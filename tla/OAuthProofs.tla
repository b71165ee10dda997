---------------------------- MODULE OAuthProofs ----------------------------
(***************************************************************************)
(* Proofs about OAuth, for any clients, codes and tokens and any number of *)
(* crashes, when the pairing command never runs in the middle of a write   *)
(* of the server (Concurrent = FALSE), nor the server in the middle of the *)
(* command's.                                                              *)
(***************************************************************************)
EXTENDS OAuth, FiniteSetTheorems, TLAPS

\* Functions from some members of S to T.
Maps(S, T) == UNION {[D -> T] : D \in SUBSET S}

Pending == [failed : 0 .. MaxFailed - 1, recent : BOOLEAN]
Ids == Clients \cup PairingCodes \cup AuthCodes \cup Tokens

States ==
    [clients : SUBSET Clients, pending : Maps(Clients, Pending),
     codes : SUBSET PairingCodes, auth : Maps(AuthCodes, Clients),
     access : Maps(Tokens, Clients), refresh : Maps(Tokens, Clients),
     kind : {"whole", "torn", "absent"}]

Types ==
    /\ file \in States /\ tmp \in States /\ mem \in [Processes -> States]
    /\ job \in [Processes -> [pc : {"idle", "open", "fill", "replace", "authorize"},
                              then : Clients \cup {None}, tell : SUBSET Ids]]
    /\ late \subseteq Ids /\ fresh \subseteq Ids /\ told \subseteq Ids
    /\ paired \in [PairingCodes -> SUBSET Clients]
    /\ redeemed \in [AuthCodes \cup Tokens -> Nat]
    /\ crashes \in 0 .. MaxCrashes

-----------------------------------------------------------------------------
(* The inductive invariant                                                 *)

Redeemable(st) == DOMAIN st.auth \cup DOMAIN st.refresh

\* The codes or tokens of f are of the clients C.
Of(C, f) == \A x \in DOMAIN f : f[x] \in C

\* Clients are active or pending, codes and tokens are of active clients.
Consistent(st) ==
    /\ st.clients \cap DOMAIN st.pending = {}
    /\ Of(st.clients, st.auth) /\ Of(st.clients, st.access) /\ Of(st.clients, st.refresh)

\* Nothing that has yet to be drawn is in it.
Unknown(st) ==
    fresh \cap (st.clients \cup DOMAIN st.pending \cup st.codes \cup Issued(st)) = {}

\* Nothing that was handed out and is still good is missing.
Used(x) ==
    \/ x \in PairingCodes /\ paired[x] # {}
    \/ x \notin PairingCodes /\ redeemed[x] > 0
Kept(st) == \A x \in told \ (Clients \cup late) : Used(x) \/ x \in st.codes \cup Issued(st)

Sound(st) == st.kind = "whole" /\ Consistent(st) /\ Unknown(st) /\ Kept(st)

\* What can be redeemed was so only where a crash took the answer.
Spent(st) ==
    /\ \A k \in st.codes : Cardinality(paired[k]) <= crashes
    /\ \A t \in Redeemable(st) : redeemed[t] <= crashes

Busy(p) == job[p].pc \in {"open", "fill", "replace"}
Others(p) == IF p = "server" THEN "command" ELSE "server"

\* The file is sound, or there is none and nothing was handed out; what it has
\* is unspent but for what the server is about to replace it for.
FileSound ==
    /\ file.kind = "whole" => Sound(file) /\ (~Busy("server") => Spent(file))
    /\ file.kind # "whole" => file = Absent /\ told = {}
    /\ file.kind # "whole" /\ ~Busy("server") => mem["server"] = New

\* One process writes, and what it writes is sound.
Writers ==
    \A p \in Processes :
        /\ Busy(p) =>
            /\ Sound(mem[p]) /\ Spent(mem[p])
            /\ job[p].tell \subseteq Clients \cup mem[p].codes \cup Issued(mem[p])
            /\ job[p].then # None => job[p].then \in mem[p].clients
        /\ job[p].pc # "idle" => job[Others(p)].pc = "idle"
        /\ job[p].pc = "fill" => tmp = Torn
        /\ job[p].pc = "replace" => tmp = mem[p]

\* The code that follows an activation is for a client the file has.
Authorizing ==
    /\ job["server"].pc = "authorize" => file.kind = "whole" /\ job["server"].then \in file.clients
    /\ job["command"].then = None /\ job["command"].pc # "authorize"

\* A redemption is counted, once and for each crash.
Counted ==
    /\ \A k \in PairingCodes :
        /\ IsFiniteSet(paired[k]) /\ Cardinality(paired[k]) <= 1 + crashes
        /\ k \in fresh => paired[k] = {}
    /\ \A t \in AuthCodes \cup Tokens :
        /\ redeemed[t] <= 1 + crashes
        /\ t \in fresh => redeemed[t] = 0

IInv == Types /\ FileSound /\ Writers /\ Authorizing /\ Counted
-----------------------------------------------------------------------------
\* The maps of a state stay maps.
LEMMA EmptyMap == ASSUME NEW S, NEW T PROVE <<>> \in Maps(S, T) /\ DOMAIN <<>> = {}
<1>1. <<>> \in [{} -> T]
  OBVIOUS
<1> QED
  BY <1>1 DEF Maps

\* The state of a new process, and a file that is not there.
LEMMA NewState ==
    /\ New \in States /\ Torn \in States /\ Absent \in States
    /\ New.clients = {} /\ New.codes = {} /\ DOMAIN New.pending = {}
    /\ DOMAIN New.auth = {} /\ DOMAIN New.access = {} /\ DOMAIN New.refresh = {}
    /\ New.kind = "whole" /\ Torn.kind = "torn" /\ Absent.kind = "absent"
<1>1. <<>> \in Maps(Clients, Pending) /\ <<>> \in Maps(AuthCodes, Clients)
      /\ <<>> \in Maps(Tokens, Clients) /\ DOMAIN <<>> = {}
  BY EmptyMap
<1> QED
  BY <1>1 DEF New, Torn, Absent, States

\* The invariant holds initially.
LEMMA InitOK == ASSUME OAuthAssumption, Init PROVE IInv
<1>1. Types
  BY NewState DEF OAuthAssumption, Init, Types, Quiet, None, Processes, Ids
<1>2. FileSound /\ Writers /\ Authorizing
  BY NewState DEF Init, FileSound, Writers, Authorizing, Busy, Quiet, Processes
<1>3. Counted
  BY FS_EmptySet DEF OAuthAssumption, Init, Counted
<1> QED
  BY <1>1, <1>2, <1>3 DEF IInv
-----------------------------------------------------------------------------
(* What an operation reads, and what it writes                             *)

\* A state without entries is sound while nothing was handed out.
LEMMA NewSound == ASSUME told = {} PROVE Sound(New) /\ Spent(New)
BY NewState DEF Of, Sound, Spent, Consistent, Unknown, Kept, Issued, Redeemable

\* What the server reads at rest is sound and unspent.
LEMMA LoadedSound ==
    ASSUME IInv, ~Busy("server")
    PROVE  /\ Loaded("server") \in States
           /\ Sound(Loaded("server")) /\ Spent(Loaded("server"))
<1>1. CASE file.kind = "whole"
  BY <1>1 DEF IInv, Types, FileSound, Loaded, Read
<1>2. CASE file.kind # "whole"
  <2>1. Loaded("server") = New /\ told = {}
    BY <1>2 DEF IInv, FileSound, Loaded, Read
  <2> QED
    BY <2>1, NewSound, NewState
<1> QED
  BY <1>1, <1>2

\* So is what the command reads.
LEMMA ReadSound ==
    ASSUME IInv, ~Busy("server")
    PROVE  /\ Read(file, New) \in States
           /\ Sound(Read(file, New)) /\ Spent(Read(file, New))
<1>1. CASE file.kind = "whole"
  BY <1>1 DEF IInv, Types, FileSound, Read
<1>2. CASE file.kind # "whole"
  <2>1. Read(file, New) = New /\ told = {}
    BY <1>2 DEF IInv, FileSound, Read
  <2> QED
    BY <2>1, NewSound, NewState
<1> QED
  BY <1>1, <1>2

\* Dropping pending clients that have expired.
LEMMA PendingPurged ==
    ASSUME NEW st \in States
    PROVE  /\ PurgePending(st) \in States
           /\ PurgePending(st) = [st EXCEPT !.pending = PurgePending(st).pending]
           /\ DOMAIN PurgePending(st).pending \subseteq DOMAIN st.pending
           /\ Sound(st) => Sound(PurgePending(st))
           /\ Spent(st) => Spent(PurgePending(st))
<1>0. st.pending \in Maps(Clients, Pending)
  BY DEF States
<1>1. /\ Without(st.pending, late) \in Maps(Clients, Pending)
      /\ DOMAIN Without(st.pending, late) = DOMAIN st.pending \ late
  <2>1. PICK D \in SUBSET Clients : st.pending \in [D -> Pending]
    BY <1>0 DEF Maps
  <2>2. Without(st.pending, late) \in [D \ late -> Pending]
    BY <2>1 DEF Without, Restrict
  <2> QED
    BY <2>1, <2>2 DEF Maps
<1> DEFINE new == PurgePending(st)
<1>2. new = [st EXCEPT !.pending = Without(st.pending, late)]
  BY DEF PurgePending
<1>3. /\ new \in States /\ new.pending = Without(st.pending, late)
      /\ new.clients = st.clients /\ new.codes = st.codes /\ new.kind = st.kind
      /\ new.auth = st.auth /\ new.access = st.access /\ new.refresh = st.refresh
  BY <1>1, <1>2 DEF States
<1> HIDE DEF new
<1>4. Sound(st) => Sound(new)
  BY <1>1, <1>3 DEF Sound, Consistent, Unknown, Kept, Issued
<1>5. Spent(st) => Spent(new)
  BY <1>3 DEF Spent, Redeemable
<1> QED
  BY <1>1, <1>2, <1>3, <1>4, <1>5 DEF new

\* Dropping pairing codes that have expired.
LEMMA CodesPurged ==
    ASSUME NEW st \in States
    PROVE  /\ PurgeCodes(st) \in States
           /\ PurgeCodes(st) = [st EXCEPT !.codes = st.codes \ late]
           /\ Sound(st) => Sound(PurgeCodes(st))
           /\ Spent(st) => Spent(PurgeCodes(st))
<1> DEFINE new == PurgeCodes(st)
<1>1. new = [st EXCEPT !.codes = st.codes \ late]
  BY DEF PurgeCodes
<1>2. /\ new \in States /\ new.pending = st.pending
      /\ new.clients = st.clients /\ new.codes = st.codes \ late /\ new.kind = st.kind
      /\ new.auth = st.auth /\ new.access = st.access /\ new.refresh = st.refresh
  BY <1>1 DEF States
<1> HIDE DEF new
<1>3. Sound(st) => Sound(new)
  BY <1>2 DEF Sound, Consistent, Unknown, Kept, Issued
<1>4. Spent(st) => Spent(new)
  BY <1>2 DEF Spent, Redeemable
<1> QED
  BY <1>1, <1>2, <1>3, <1>4 DEF new
-----------------------------------------------------------------------------
\* What is used stays so.
StaysUsed == \A x \in told \ Clients : Used(x) => Used(x)'

\* A write of a sound state begins.
LEMMA FlushOK ==
    ASSUME IInv, NEW p \in Processes, ~Busy(p), job[Others(p)].pc = "idle",
           NEW st \in States, NEW then \in Clients \cup {None}, NEW tell \in SUBSET Ids,
           Flush(p, st, then, tell), UNCHANGED <<file, tmp, late, crashes>>,
           fresh' \subseteq fresh, told' \subseteq told, StaysUsed,
           paired' \in [PairingCodes -> SUBSET Clients],
           redeemed' \in [AuthCodes \cup Tokens -> Nat],
           p = "command" => then = None /\ UNCHANGED <<paired, redeemed>>,
           tell \subseteq Clients \cup st.codes \cup Issued(st),
           then # None => then \in st.clients,
           Sound(st)', Spent(st)', Counted'
    PROVE  IInv'
<1>1. /\ mem' = [mem EXCEPT ![p] = st]
      /\ job' = [job EXCEPT ![p] = [pc |-> "open", then |-> then, tell |-> tell]]
  BY DEF Flush
<1>2. Types'
  BY <1>1 DEF IInv, Types
<1>3. FileSound'
  <2>1. CASE file.kind = "whole"
    <3>1. Sound(file)'
      <4>1. Sound(file) /\ file' = file /\ late' = late
        BY <2>1 DEF IInv, FileSound
      <4> QED
        BY <4>1 DEF Sound, Consistent, Unknown, Kept, StaysUsed
    <3>2. ~Busy("server")' => Spent(file)'
      <4>1. CASE p = "server"
        BY <4>1, <1>1 DEF Busy, IInv, Types
      <4>2. CASE p = "command"
        <5>1. Spent(file) /\ UNCHANGED <<paired, redeemed, file, crashes>>
          BY <2>1, <4>2 DEF IInv, FileSound, Others, Busy
        <5> QED
          BY <5>1 DEF Spent
      <4> QED
        BY <4>1, <4>2 DEF Processes
    <3> QED
      BY <2>1, <3>1, <3>2 DEF FileSound
  <2>2. CASE file.kind # "whole"
    <3>1. file' = Absent /\ told' = {} /\ file'.kind # "whole"
      BY <2>2 DEF IInv, FileSound
    <3>2. ~Busy("server")' => mem'["server"] = New
      <4>1. CASE p = "server"
        BY <4>1, <1>1 DEF Busy, IInv, Types
      <4>2. CASE p = "command"
        BY <4>2, <1>1, <2>2 DEF IInv, FileSound, Others, Busy, Types
      <4> QED
        BY <4>1, <4>2 DEF Processes
    <3> QED
      BY <3>1, <3>2 DEF FileSound
  <2> QED
    BY <2>1, <2>2
<1>4. Writers'
  <2> SUFFICES ASSUME NEW q \in Processes
               PROVE  /\ Busy(q)' =>
                          /\ Sound(mem[q])' /\ Spent(mem[q])'
                          /\ job'[q].tell \subseteq Clients \cup mem'[q].codes \cup Issued(mem[q])'
                          /\ job'[q].then # None => job'[q].then \in mem'[q].clients
                      /\ job'[q].pc # "idle" => job'[Others(q)].pc = "idle"
                      /\ job'[q].pc = "fill" => tmp' = Torn
                      /\ job'[q].pc = "replace" => tmp' = mem'[q]
    BY DEF Writers, Others
  <2>1. CASE q = p
    <3>1. /\ mem'[q] = st /\ job'[q] = [pc |-> "open", then |-> then, tell |-> tell]
          /\ Others(q) # q /\ job'[Others(q)] = job[Others(q)]
      BY <2>1, <1>1 DEF IInv, Types, Others, Processes
    <3> QED
      BY <2>1, <3>1 DEF Sound, Spent, Consistent, Unknown, Kept, Issued, Redeemable
  <2>2. CASE q # p
    <3>1. job'[q].pc = "idle"
      BY <2>2, <1>1 DEF IInv, Types, Others, Processes
    <3> QED
      BY <3>1 DEF Busy
  <2> QED
    BY <2>1, <2>2
<1>5. Authorizing'
  <2>1. job'["command"].then = None /\ job'["command"].pc # "authorize"
    BY <1>1 DEF IInv, Types, Authorizing, Processes
  <2>2. job'["server"].pc # "authorize"
    BY <1>1 DEF IInv, Types, Others, Processes
  <2> QED
    BY <2>1, <2>2 DEF Authorizing
<1> QED
  BY <1>2, <1>3, <1>4, <1>5 DEF IInv
-----------------------------------------------------------------------------
(* The operations                                                          *)

\* At rest nobody writes.
LEMMA AtRest ==
    ASSUME ~Concurrent, NEW p \in Processes, Ready(p)
    PROVE  job["server"].pc = "idle" /\ job["command"].pc = "idle"
BY DEF Ready, Processes

\* The command creates a pairing code.
LEMMA CreatePairingCodeOK ==
    ASSUME OAuthAssumption, ~Concurrent, IInv, NEW k \in PairingCodes, CreatePairingCode(k)
    PROVE  IInv'
<1>1. job["server"].pc = "idle" /\ job["command"].pc = "idle" /\ k \in fresh
  BY AtRest DEF CreatePairingCode, Processes
<1>2. PICK old : /\ old = PurgeCodes(Read(file, New))
                 /\ old \in States /\ Sound(old) /\ Spent(old)
  BY <1>1, ReadSound, CodesPurged DEF Busy
<1>3. PICK st : st = [old EXCEPT !.codes = old.codes \cup {k}]
  OBVIOUS
<1>4. /\ st \in States /\ st.codes = old.codes \cup {k} /\ st.kind = old.kind
      /\ st.clients = old.clients /\ st.pending = old.pending
      /\ st.auth = old.auth /\ st.access = old.access /\ st.refresh = old.refresh
  BY <1>2, <1>3 DEF States
<1>5. /\ Flush("command", st, None, {k})
      /\ UNCHANGED <<file, tmp, late, crashes, told, paired, redeemed>>
      /\ fresh' = fresh \ {k}
  BY <1>2, <1>3 DEF CreatePairingCode, history
<1>6. Sound(st)'
  BY <1>2, <1>4, <1>5 DEF Sound, Consistent, Unknown, Kept, Issued, Used
<1>7. Spent(st)'
  <2>1. Cardinality(paired[k]) = 0
    BY <1>1, FS_EmptySet DEF IInv, Counted
  <2> QED
    BY <1>2, <1>4, <1>5, <2>1 DEF Spent, Redeemable, IInv, Types
<1>8. Counted'
  BY <1>5 DEF Counted, IInv
<1> QED
  <2>1. "command" \in Processes /\ Others("command") = "server" /\ {k} \in SUBSET Ids
    BY DEF Processes, Others, Ids
  <2>2. ~Busy("command") /\ StaysUsed /\ {k} \subseteq Clients \cup st.codes \cup Issued(st)
    BY <1>1, <1>4, <1>5 DEF Busy, StaysUsed, Used
  <2>3. /\ paired' \in [PairingCodes -> SUBSET Clients]
        /\ redeemed' \in [AuthCodes \cup Tokens -> Nat]
    BY <1>5 DEF IInv, Types
  <2> QED
    BY <1>1, <1>4, <1>5, <1>6, <1>7, <1>8, <2>1, <2>2, <2>3, FlushOK

\* A client registers.
LEMMA RegisterClientOK ==
    ASSUME OAuthAssumption, ~Concurrent, IInv, NEW c \in Clients, RegisterClient(c)
    PROVE  IInv'
<1>1. job["server"].pc = "idle" /\ job["command"].pc = "idle" /\ c \in fresh
  BY AtRest DEF RegisterClient, Serve, Processes
<1>2. PICK old : /\ old = PurgePending(Loaded("server"))
                 /\ old \in States /\ Sound(old) /\ Spent(old)
  BY <1>1, LoadedSound, PendingPurged DEF Busy
<1>3. PICK new : new = With(old.pending, c, [failed |-> 0, recent |-> FALSE])
  OBVIOUS
<1>4. new \in Maps(Clients, Pending) /\ DOMAIN new = DOMAIN old.pending \cup {c}
  <2>1. PICK D \in SUBSET Clients : old.pending \in [D -> Pending]
    BY <1>2 DEF States, Maps
  <2>2. [failed |-> 0, recent |-> FALSE] \in Pending
    BY DEF Pending, OAuthAssumption
  <2>3. new \in [D \cup {c} -> Pending]
    BY <1>3, <2>1, <2>2 DEF With
  <2> QED
    BY <2>1, <2>3 DEF Maps
<1>5. PICK st : st = [old EXCEPT !.pending = new]
  OBVIOUS
<1>6. /\ st \in States /\ st.pending = new /\ st.kind = old.kind
      /\ st.clients = old.clients /\ st.codes = old.codes
      /\ st.auth = old.auth /\ st.access = old.access /\ st.refresh = old.refresh
  BY <1>2, <1>4, <1>5 DEF States
<1>7. /\ Flush("server", st, None, {c})
      /\ UNCHANGED <<file, tmp, late, crashes, told, paired, redeemed>>
      /\ fresh' = fresh \ {c}
  BY <1>2, <1>3, <1>5 DEF RegisterClient, history
<1>8. Sound(st)'
  BY <1>1, <1>2, <1>4, <1>6, <1>7 DEF Sound, Consistent, Unknown, Kept, Issued, Used
<1>9. Spent(st)'
  BY <1>2, <1>6, <1>7 DEF Spent, Redeemable
<1>10. Counted'
  BY <1>7 DEF Counted, IInv
<1> QED
  <2>1. "server" \in Processes /\ Others("server") = "command" /\ {c} \in SUBSET Ids
    BY DEF Processes, Others, Ids
  <2>2. ~Busy("server") /\ StaysUsed /\ {c} \subseteq Clients \cup st.codes \cup Issued(st)
    BY <1>1, <1>7 DEF Busy, StaysUsed, Used
  <2>3. /\ paired' \in [PairingCodes -> SUBSET Clients]
        /\ redeemed' \in [AuthCodes \cup Tokens -> Nat]
    BY <1>7 DEF IInv, Types
  <2> QED
    BY <1>1, <1>6, <1>7, <1>8, <1>9, <1>10, <2>1, <2>2, <2>3, FlushOK

\* A client comes to the form.
LEMMA ShowFormOK ==
    ASSUME ~Concurrent, IInv, NEW c \in Clients, ShowForm(c)
    PROVE  IInv'
<1>1. job["server"].pc = "idle" /\ job["command"].pc = "idle"
  BY AtRest DEF ShowForm, Serve, Processes
<1>2. PICK old : /\ old = Loaded("server")
                 /\ old \in States /\ Sound(old) /\ Spent(old)
  BY <1>1, LoadedSound DEF Busy
<1>3. UNCHANGED <<file, tmp, late, crashes, told, fresh, paired, redeemed>>
  BY DEF ShowForm, history
<1>4. CASE PurgePending(old) # old
  <2>1. PICK st : st = PurgePending(old)
    OBVIOUS
  <2>2. st \in States /\ Sound(st) /\ Spent(st) /\ Flush("server", st, None, {})
    BY <1>2, <1>4, <2>1, PendingPurged DEF ShowForm
  <2>3. Sound(st)' /\ Spent(st)' /\ Counted'
    BY <1>3, <2>2
       DEF Sound, Consistent, Unknown, Kept, Issued, Used, Spent, Redeemable, Counted, IInv
  <2>4. "server" \in Processes /\ Others("server") = "command"
    BY DEF Processes, Others
  <2>5. ~Busy("server") /\ StaysUsed
    BY <1>1, <1>3 DEF Busy, StaysUsed, Used
  <2>6. /\ paired' \in [PairingCodes -> SUBSET Clients]
        /\ redeemed' \in [AuthCodes \cup Tokens -> Nat]
    BY <1>3 DEF IInv, Types
  <2> QED
    BY <1>1, <1>3, <2>2, <2>3, <2>4, <2>5, <2>6, FlushOK
<1>5. CASE PurgePending(old) = old
  <2>1. mem' = [mem EXCEPT !["server"] = old] /\ job' = [job EXCEPT !["server"] = Quiet]
    BY <1>2, <1>5 DEF ShowForm, Answer
  <2>2. Types'
    BY <1>2, <1>3, <2>1 DEF IInv, Types, Quiet, Processes
  <2>3. ~Busy("server")' /\ job'["server"].pc = "idle" /\ job'["command"] = job["command"]
        /\ mem'["command"] = mem["command"] /\ mem'["server"] = old
    BY <1>1, <2>1 DEF Busy, IInv, Types, Quiet, Processes
  <2>4. FileSound'
    <3>1. file.kind # "whole" => old = New
      BY <1>1, <1>2 DEF IInv, FileSound, Loaded, Read, Busy
    <3>2. file.kind = "whole" => Sound(file)' /\ Spent(file)'
      BY <1>1, <1>3 DEF IInv, FileSound, Busy, Sound, Consistent, Unknown, Kept, Issued, Used,
                        Spent, Redeemable
    <3> QED
      BY <1>3, <2>3, <3>1, <3>2 DEF IInv, FileSound
  <2>5. Writers' /\ Authorizing' /\ Counted'
    BY <1>1, <1>3, <2>3 DEF Writers, Authorizing, Counted, IInv, Processes, Others, Busy
  <2> QED
    BY <2>2, <2>4, <2>5 DEF IInv
<1> QED
  BY <1>4, <1>5

-----------------------------------------------------------------------------
(* What pairing, authorizing and redeeming write                           *)

\* A token is added to a map.
LEMMA TokenAdded ==
    ASSUME NEW f \in Maps(Tokens, Clients), NEW t \in Tokens, NEW c \in Clients,
           NEW C, c \in C, Of(C, f), NEW new, new = With(f, t, c)
    PROVE  /\ new \in Maps(Tokens, Clients)
           /\ DOMAIN new = DOMAIN f \cup {t}
           /\ Of(C, new)
<1>1. PICK D \in SUBSET Tokens : f \in [D -> Clients]
  BY DEF Maps
<1>2. new \in [D \cup {t} -> Clients] /\ \A x \in D \cup {t} : new[x] = IF x = t THEN c ELSE f[x]
  BY <1>1 DEF With
<1>3. new \in Maps(Tokens, Clients) /\ DOMAIN new = DOMAIN f \cup {t}
  BY <1>1, <1>2 DEF Maps
<1> QED
  BY <1>1, <1>2, <1>3 DEF Of

\* A token is taken from one.
LEMMA TokenTaken ==
    ASSUME NEW f \in Maps(Tokens, Clients), NEW t \in Tokens,
           NEW C, Of(C, f), NEW new, new = Without(f, {t})
    PROVE  /\ new \in Maps(Tokens, Clients)
           /\ DOMAIN new = DOMAIN f \ {t}
           /\ Of(C, new)
<1>1. PICK D \in SUBSET Tokens : f \in [D -> Clients]
  BY DEF Maps
<1>2. new \in [D \ {t} -> Clients] /\ \A x \in D \ {t} : new[x] = f[x]
  BY <1>1 DEF Without, Restrict
<1> QED
  BY <1>1, <1>2 DEF Maps, Of

\* Pending clients are taken away, and failures counted.
LEMMA PendingTaken ==
    ASSUME NEW f \in Maps(Clients, Pending), NEW c \in DOMAIN f
    PROVE  /\ Without(f, {c}) \in Maps(Clients, Pending)
           /\ DOMAIN Without(f, {c}) = DOMAIN f \ {c}
<1>1. PICK D \in SUBSET Clients : f \in [D -> Pending]
  BY DEF Maps
<1>2. PICK new : new = Without(f, {c})
  OBVIOUS
<1>3. new \in [D \ {c} -> Pending]
  BY <1>1, <1>2 DEF Without, Restrict
<1> QED
  BY <1>1, <1>2, <1>3 DEF Maps

\* A failed attempt keeps every count below the limit.
LEMMA FailedCounted ==
    ASSUME OAuthAssumption, NEW f \in Maps(Clients, Pending), NEW c \in DOMAIN f
    PROVE  /\ Failed(f, c) \in Maps(Clients, Pending)
           /\ DOMAIN Failed(f, c) \subseteq DOMAIN f
<1>1. PICK D \in SUBSET Clients : f \in [D -> Pending]
  BY DEF Maps
<1>2. f[c] \in Pending /\ f[c].failed \in 0 .. MaxFailed - 1
  BY <1>1 DEF Pending
<1>3. CASE f[c].failed + 1 >= MaxFailed
  BY <1>3, PendingTaken DEF Failed
<1>4. CASE ~(f[c].failed + 1 >= MaxFailed)
  <2>1. PICK entry : entry = [failed |-> f[c].failed + 1, recent |-> TRUE]
    OBVIOUS
  <2>2. entry \in Pending
    BY <1>2, <1>4, <2>1 DEF Pending, OAuthAssumption
  <2>3. PICK new : new = With(f, c, entry)
    OBVIOUS
  <2>4. new \in [D -> Pending]
    BY <1>1, <2>2, <2>3 DEF With
  <2>5. Failed(f, c) = new
    BY <1>4, <2>1, <2>3 DEF Failed
  <2> QED
    BY <1>1, <2>4, <2>5 DEF Maps
<1> QED
  BY <1>3, <1>4

\* An owner enters a pairing code, that may exist or not.
LEMMA ActivatePendingClientOK ==
    ASSUME OAuthAssumption, ~Concurrent, IInv, NEW c \in Clients, NEW k \in PairingCodes,
           ActivatePendingClient(c, k)
    PROVE  IInv'
<1>1. job["server"].pc = "idle" /\ job["command"].pc = "idle"
  BY AtRest DEF ActivatePendingClient, Serve, Processes
<1>2. PICK old : /\ old = PurgePending(Loaded("server"))
                 /\ old \in States /\ Sound(old) /\ Spent(old)
  BY <1>1, LoadedSound, PendingPurged DEF Busy
<1>3. PICK purged : /\ purged = PurgeCodes(old) /\ purged.codes = old.codes \ late
                    /\ purged \in States /\ Sound(purged) /\ Spent(purged)
                    /\ purged.pending = old.pending /\ purged.clients = old.clients
  <2>1. PICK purged : purged = PurgeCodes(old)
    OBVIOUS
  <2>2. purged = [old EXCEPT !.codes = old.codes \ late]
    BY <2>1 DEF PurgeCodes
  <2>3. /\ purged.codes = old.codes \ late
        /\ purged.pending = old.pending /\ purged.clients = old.clients
    BY <1>2, <2>2 DEF States
  <2> QED
    BY <1>2, <2>1, <2>3, CodesPurged
<1>4. PICK paid : paid = Consume(old, k)
  OBVIOUS
<1>5. paid = [purged EXCEPT !.codes = purged.codes \ {k}]
  BY <1>3, <1>4 DEF Consume
<1>6. /\ UNCHANGED <<file, tmp, late, crashes, told, fresh, redeemed>>
      /\ c \in DOMAIN purged.pending /\ c \notin purged.clients
  BY <1>2, <1>3 DEF ActivatePendingClient
<1>7. purged.pending \in Maps(Clients, Pending) /\ purged.codes \subseteq PairingCodes
  BY <1>3 DEF States
<1>8. "server" \in Processes /\ Others("server") = "command" /\ ~Busy("server")
  BY <1>1 DEF Processes, Others, Busy
<1>9. redeemed' \in [AuthCodes \cup Tokens -> Nat]
  BY <1>6 DEF IInv, Types
<1>10. CASE k \in purged.codes
  <2>1. PICK new : new = Without(purged.pending, {c})
    OBVIOUS
  <2>2. new \in Maps(Clients, Pending) /\ DOMAIN new = DOMAIN purged.pending \ {c}
    BY <1>6, <1>7, <2>1, PendingTaken
  <2>3. PICK st : st = [purged EXCEPT !.codes = purged.codes \ {k}, !.pending = new,
                                      !.clients = purged.clients \cup {c}]
    OBVIOUS
  <2>4. /\ st \in States /\ st.codes = purged.codes \ {k} /\ st.pending = new
        /\ st.clients = purged.clients \cup {c} /\ st.kind = purged.kind
        /\ st.auth = purged.auth /\ st.access = purged.access /\ st.refresh = purged.refresh
    BY <1>3, <2>2, <2>3 DEF States
  <2>5. [paid EXCEPT !.clients = paid.clients \cup {c}, !.pending = Without(paid.pending, {c})] = st
    <3>1. paid.clients = purged.clients /\ paid.pending = purged.pending
      BY <1>3, <1>5 DEF States
    <3>2. [paid EXCEPT !.clients = purged.clients \cup {c}, !.pending = new] = st
      BY <1>3, <1>5, <2>3 DEF States
    <3> QED
      BY <2>1, <3>1, <3>2
  <2>6. /\ Flush("server", st, c, {})
        /\ paired' = [paired EXCEPT ![k] = @ \cup {c}]
    BY <1>2, <1>3, <1>4, <1>10, <2>5 DEF ActivatePendingClient
  <2>7. paired' \in [PairingCodes -> SUBSET Clients] /\ paired'[k] = paired[k] \cup {c}
        /\ \A j \in PairingCodes \ {k} : paired'[j] = paired[j]
    BY <2>6 DEF IInv, Types
  <2>8. StaysUsed
    BY <1>6, <2>7 DEF StaysUsed, Used, IInv, Types
  <2>9. Sound(st)'
    BY <1>3, <1>6, <2>2, <2>4, <2>7, <2>8
       DEF Of, Sound, Consistent, Unknown, Kept, Issued, Used, StaysUsed
  <2>10. Spent(st)'
    BY <1>3, <1>6, <1>7, <2>4, <2>7 DEF Spent, Redeemable
  <2>11. Counted'
    <3>1. IsFiniteSet(paired'[k]) /\ Cardinality(paired'[k]) <= 1 + crashes
      <4>1. /\ IsFiniteSet(paired[k]) /\ Cardinality(paired[k]) <= crashes
            /\ Cardinality(paired[k]) \in Nat
        BY <1>3, <1>10, FS_CardinalityType DEF Spent, IInv, Counted
      <4>2. /\ IsFiniteSet(paired[k] \cup {c})
            /\ Cardinality(paired[k] \cup {c}) <= Cardinality(paired[k]) + 1
        <5>1. PICK S : S = paired[k]
          OBVIOUS
        <5>2. /\ IsFiniteSet(S \cup {c})
              /\ \/ Cardinality(S \cup {c}) = Cardinality(S)
                 \/ Cardinality(S \cup {c}) = Cardinality(S) + 1
          BY <4>1, <5>1, FS_AddElement
        <5> QED
          BY <4>1, <5>1, <5>2
      <4>3. Cardinality(paired[k] \cup {c}) \in Nat /\ crashes \in Nat
        BY <4>2, FS_CardinalityType DEF IInv, Types, OAuthAssumption
      <4> QED
        BY <2>7, <4>1, <4>2, <4>3
    <3>2. k \notin fresh
      BY <1>3, <1>10 DEF Sound, Unknown
    <3> QED
      BY <1>6, <2>7, <3>1, <3>2 DEF Counted, IInv
  <2> QED
    <3>1. c # None => c \in st.clients
      BY <2>4
    <3>2. "server" = "command" => c = None /\ UNCHANGED <<paired, redeemed>>
      OBVIOUS
    <3> QED
      BY <1>1, <1>6, <1>8, <1>9, <2>4, <2>6, <2>7, <2>8, <2>9, <2>10, <2>11, <3>1, <3>2, FlushOK
<1>11. CASE k \notin purged.codes
  <2>1. PICK new : new = Failed(purged.pending, c)
    OBVIOUS
  <2>2. new \in Maps(Clients, Pending) /\ DOMAIN new \subseteq DOMAIN purged.pending
    BY <1>6, <1>7, <2>1, FailedCounted
  <2>3. PICK st : st = [purged EXCEPT !.codes = purged.codes \ {k}, !.pending = new]
    OBVIOUS
  <2>4. /\ st \in States /\ st.codes = purged.codes /\ st.pending = new
        /\ st.clients = purged.clients /\ st.kind = purged.kind
        /\ st.auth = purged.auth /\ st.access = purged.access /\ st.refresh = purged.refresh
    <3>1. purged.codes \ {k} = purged.codes
      BY <1>11
    <3> QED
      BY <1>3, <2>2, <2>3, <3>1 DEF States
  <2>5. [paid EXCEPT !.pending = Failed(paid.pending, c)] = st
    <3>1. paid.pending = purged.pending
      BY <1>3, <1>5 DEF States
    <3>2. [paid EXCEPT !.pending = new] = st
      BY <1>3, <1>5, <2>3 DEF States
    <3> QED
      BY <2>1, <3>1, <3>2
  <2>6. Flush("server", st, None, {}) /\ UNCHANGED paired
    BY <1>2, <1>3, <1>4, <1>11, <2>5 DEF ActivatePendingClient
  <2>7. paired' \in [PairingCodes -> SUBSET Clients] /\ StaysUsed
    BY <1>6, <2>6 DEF IInv, Types, StaysUsed, Used
  <2>8. Sound(st)'
    BY <1>3, <1>6, <2>2, <2>4, <2>6 DEF Sound, Consistent, Unknown, Kept, Issued, Used
  <2>9. Spent(st)' /\ Counted'
    BY <1>3, <1>6, <2>4, <2>6 DEF Spent, Redeemable, Counted, IInv
  <2> QED
    BY <1>1, <1>6, <1>8, <1>9, <2>4, <2>6, <2>7, <2>8, <2>9, FlushOK
<1> QED
  BY <1>10, <1>11

\* The server gives a client an authorization code.
LEMMA AuthorizeOK ==
    ASSUME OAuthAssumption, ~Concurrent, IInv, NEW c \in Clients, NEW a \in AuthCodes,
           Authorize(c, a)
    PROVE  IInv'
<1>1. /\ job["command"].pc = "idle" /\ ~Busy("server")
      /\ c \in Loaded("server").clients
  <2>1. CASE Serve /\ c \in Loaded("server").clients
    BY <2>1, AtRest DEF Serve, Processes, Busy
  <2>2. CASE job["server"].pc = "authorize" /\ job["server"].then = c
    <3>1. file.kind = "whole" /\ c \in file.clients
      BY <2>2 DEF IInv, Authorizing
    <3>2. job["command"].pc = "idle"
      BY <2>2 DEF IInv, Writers, Others, Processes
    <3> QED
      BY <2>2, <3>1, <3>2 DEF Busy, Loaded, Read
  <2> QED
    BY <2>1, <2>2 DEF Authorize
<1>2. PICK old : /\ old = Loaded("server")
                 /\ old \in States /\ Sound(old) /\ Spent(old)
  BY <1>1, LoadedSound
<1>3. PICK new : new = With(old.auth, a, c)
  OBVIOUS
<1>4. /\ new \in Maps(AuthCodes, Clients) /\ DOMAIN new = DOMAIN old.auth \cup {a}
      /\ new[a] = c /\ \A x \in DOMAIN old.auth \ {a} : new[x] = old.auth[x]
  <2>1. PICK D \in SUBSET AuthCodes : old.auth \in [D -> Clients]
    BY <1>2 DEF States, Maps
  <2>2. /\ new \in [D \cup {a} -> Clients]
        /\ \A x \in D \cup {a} : new[x] = IF x = a THEN c ELSE old.auth[x]
    BY <1>3, <2>1 DEF With
  <2> QED
    BY <2>1, <2>2 DEF Maps
<1>5. PICK st : st = [old EXCEPT !.auth = new]
  OBVIOUS
<1>6. /\ st \in States /\ st.auth = new /\ st.kind = old.kind
      /\ st.clients = old.clients /\ st.codes = old.codes /\ st.pending = old.pending
      /\ st.access = old.access /\ st.refresh = old.refresh
  BY <1>2, <1>4, <1>5 DEF States
<1>7. /\ Flush("server", st, None, {a})
      /\ UNCHANGED <<file, tmp, late, crashes, told, paired, redeemed>>
      /\ fresh' = fresh \ {a} /\ a \in fresh
  BY <1>2, <1>3, <1>5 DEF Authorize, history
<1>8. Sound(st)'
  BY <1>1, <1>2, <1>4, <1>6, <1>7 DEF Of, Sound, Consistent, Unknown, Kept, Issued, Used
<1>9. Spent(st)'
  <2>1. redeemed[a] = 0 /\ crashes \in Nat
    BY <1>7 DEF IInv, Counted, Types, OAuthAssumption
  <2> QED
    BY <1>2, <1>4, <1>6, <1>7, <2>1 DEF Spent, Redeemable
<1>10. Counted'
  BY <1>7 DEF Counted, IInv
<1> QED
  <2>1. "server" \in Processes /\ Others("server") = "command" /\ {a} \in SUBSET Ids
    BY DEF Processes, Others, Ids
  <2>2. StaysUsed /\ {a} \subseteq Clients \cup st.codes \cup Issued(st)
    BY <1>4, <1>6, <1>7 DEF StaysUsed, Used, Issued
  <2>3. /\ paired' \in [PairingCodes -> SUBSET Clients]
        /\ redeemed' \in [AuthCodes \cup Tokens -> Nat]
    BY <1>7 DEF IInv, Types
  <2> QED
    BY <1>1, <1>6, <1>7, <1>8, <1>9, <1>10, <2>1, <2>2, <2>3, FlushOK

\* What a code or a refresh token is redeemed for: a state without it, that has
\* a new access and a new refresh token of the same client.
LEMMA RedeemOK ==
    ASSUME OAuthAssumption, IInv, NEW old \in States, Sound(old), Spent(old),
           job["command"].pc = "idle", ~Busy("server"),
           NEW x \in Redeemable(old), NEW ts \in Pairs, NEW st \in States,
           DOMAIN st.auth = DOMAIN old.auth \ {x}, Of(old.clients, st.auth),
           DOMAIN st.access = DOMAIN old.access \cup {ts[1]}, Of(old.clients, st.access),
           DOMAIN st.refresh = (DOMAIN old.refresh \ {x}) \cup {ts[2]},
           Of(old.clients, st.refresh), st.clients = old.clients,
           st.pending = old.pending, st.codes = old.codes,
           st.kind = old.kind,
           Flush("server", st, None, Range(ts)), fresh' = fresh \ Range(ts),
           redeemed' = [redeemed EXCEPT ![x] = @ + 1],
           UNCHANGED <<file, tmp, late, told, paired, crashes>>
    PROVE  IInv'
<1>1. /\ ts[1] \in Tokens \cap fresh /\ ts[2] \in Tokens \cap fresh /\ Range(ts) = {ts[1], ts[2]}
  BY DEF Pairs, Range
<1>2. x \in AuthCodes \cup Tokens /\ x \notin PairingCodes
  BY DEF Redeemable, States, Maps, OAuthAssumption
<1>3. crashes \in Nat /\ redeemed \in [AuthCodes \cup Tokens -> Nat]
  BY DEF IInv, Types, OAuthAssumption
<1>4. /\ redeemed' \in [AuthCodes \cup Tokens -> Nat] /\ redeemed'[x] = redeemed[x] + 1
      /\ \A t \in (AuthCodes \cup Tokens) \ {x} : redeemed'[t] = redeemed[t]
  BY <1>2, <1>3
<1>5. StaysUsed
  <2> SUFFICES ASSUME NEW y \in told \ Clients, Used(y) PROVE Used(y)'
    BY DEF StaysUsed
  <2>0. y \in PairingCodes \cup AuthCodes \cup Tokens
    BY DEF IInv, Types, Ids
  <2>1. CASE y = x
    BY <1>2, <1>3, <1>4, <2>1 DEF Used
  <2>2. CASE y # x /\ y \in PairingCodes
    BY <2>2 DEF Used
  <2>3. CASE y # x /\ y \notin PairingCodes
    BY <1>4, <2>0, <2>3 DEF Used
  <2> QED
    BY <2>1, <2>2, <2>3
<1>6. Sound(st)'
  <2>1. st'.kind = "whole" /\ Consistent(st)'
    BY DEF Sound, Consistent
  <2>2. Unknown(st)'
    BY <1>1 DEF Sound, Unknown, Issued
  <2>3. Kept(st)'
    <3> SUFFICES ASSUME NEW y \in told \ (Clients \cup late), ~Used(y)'
                 PROVE  y \in st.codes \cup Issued(st)
      BY DEF Kept, Issued
    <3>1. y # x /\ ~Used(y)
      BY <1>2, <1>3, <1>4, <1>5 DEF Used, StaysUsed
    <3>2. y \in old.codes \cup Issued(old)
      BY <3>1 DEF Sound, Kept
    <3> QED
      BY <3>1, <3>2 DEF Issued
  <2> QED
    BY <2>1, <2>2, <2>3 DEF Sound
<1>7. Spent(st)'
  <2>1. redeemed[ts[2]] = 0 /\ redeemed[ts[1]] = 0
    BY <1>1 DEF IInv, Counted
  <2>2. x \notin fresh
    BY DEF Sound, Unknown, Issued, Redeemable
  <2>3. \A t \in Redeemable(st) : t # x /\ t \in AuthCodes \cup Tokens /\ redeemed[t] <= crashes
    <3>1. Redeemable(st) \subseteq (Redeemable(old) \ {x}) \cup {ts[2]}
      BY DEF Redeemable
    <3>2. Redeemable(old) \subseteq AuthCodes \cup Tokens
      BY DEF Redeemable, States, Maps
    <3>3. \A t \in Redeemable(old) : redeemed[t] <= crashes
      BY DEF Spent
    <3> QED
      BY <1>1, <1>3, <2>1, <2>2, <3>1, <3>2, <3>3
  <2>4. \A t \in Redeemable(st) : redeemed'[t] <= crashes'
    BY <1>4, <2>3
  <2>5. \A k \in st.codes : Cardinality(paired[k])' <= crashes'
    BY DEF Spent
  <2> QED
    BY <2>4, <2>5 DEF Spent, Redeemable
<1>8. Counted'
  <2>1. redeemed[x] <= crashes /\ x \notin fresh
    BY DEF Spent, Sound, Unknown, Issued, Redeemable
  <2>2. \A t \in AuthCodes \cup Tokens :
          /\ redeemed'[t] <= 1 + crashes'
          /\ t \in fresh' => redeemed'[t] = 0
    <3> SUFFICES ASSUME NEW t \in AuthCodes \cup Tokens
                 PROVE  redeemed'[t] <= 1 + crashes /\ (t \in fresh' => redeemed'[t] = 0)
      OBVIOUS
    <3>1. CASE t = x
      BY <1>3, <1>4, <2>1, <3>1
    <3>2. CASE t # x
      BY <1>3, <1>4, <3>2 DEF IInv, Counted
    <3> QED
      BY <3>1, <3>2
  <2>3. \A k \in PairingCodes :
          /\ IsFiniteSet(paired[k])' /\ Cardinality(paired[k])' <= 1 + crashes'
          /\ k \in fresh' => paired'[k] = {}
    BY DEF IInv, Counted
  <2> QED
    BY <2>2, <2>3 DEF Counted
<1> QED
  <2>1. "server" \in Processes /\ Others("server") = "command" /\ Range(ts) \in SUBSET Ids
    BY <1>1 DEF Processes, Others, Ids
  <2>2. Range(ts) \subseteq Clients \cup st.codes \cup Issued(st) /\ fresh' \subseteq fresh
    BY <1>1 DEF Issued
  <2>3. paired' \in [PairingCodes -> SUBSET Clients] /\ told' \subseteq told
    BY DEF IInv, Types
  <2>4. "server" = "command" => None = None /\ UNCHANGED <<paired, redeemed>>
    OBVIOUS
  <2>5. None \in Clients \cup {None}
    OBVIOUS
  <2>6. None # None => None \in st.clients
    OBVIOUS
  <2> QED
    BY <1>4, <1>5, <1>6, <1>7, <1>8, <2>1, <2>2, <2>3, <2>4, <2>5, <2>6, FlushOK

\* The token endpoint redeems an authorization code.
LEMMA ExchangeAuthorizationCodeOK ==
    ASSUME OAuthAssumption, ~Concurrent, IInv, NEW a \in AuthCodes, ExchangeAuthorizationCode(a)
    PROVE  IInv'
<1>1. job["command"].pc = "idle" /\ ~Busy("server")
  BY AtRest DEF ExchangeAuthorizationCode, Serve, Processes, Busy
<1>2. PICK old : /\ old = Loaded("server")
                 /\ old \in States /\ Sound(old) /\ Spent(old)
  BY <1>1, LoadedSound
<1>3. PICK ts \in Pairs :
        /\ a \in (DOMAIN old.auth \cap told) \ late /\ old.auth[a] \in old.clients
        /\ Flush("server", Issue([old EXCEPT !.auth = Without(@, {a})], old.auth[a], ts), None,
                 Range(ts))
        /\ fresh' = fresh \ Range(ts)
        /\ redeemed' = [redeemed EXCEPT ![a] = @ + 1]
        /\ UNCHANGED <<file, tmp, late, told, paired, crashes>>
  BY <1>2 DEF ExchangeAuthorizationCode
<1>4. PICK c : c = old.auth[a] /\ c \in old.clients /\ c \in Clients
  BY <1>2, <1>3 DEF States
<1>5. PICK new : new = Without(old.auth, {a})
  OBVIOUS
<1>6. /\ new \in Maps(AuthCodes, Clients) /\ DOMAIN new = DOMAIN old.auth \ {a}
      /\ Of(old.clients, new)
  <2>1. PICK D \in SUBSET AuthCodes : old.auth \in [D -> Clients]
    BY <1>2 DEF States, Maps
  <2>2. new \in [D \ {a} -> Clients] /\ \A x \in D \ {a} : new[x] = old.auth[x]
    BY <1>5, <2>1 DEF Without, Restrict
  <2> QED
    BY <1>2, <2>1, <2>2 DEF Maps, Sound, Consistent, Of
<1>7. ts[1] \in Tokens /\ ts[2] \in Tokens
  BY <1>3 DEF Pairs
<1>7a. c \in Clients /\ c \in old.clients
  BY <1>4
<1>8. PICK access : /\ access = With(old.access, ts[1], c) /\ access \in Maps(Tokens, Clients)
                    /\ DOMAIN access = DOMAIN old.access \cup {ts[1]} /\ Of(old.clients, access)
  <2>1. PICK f : f = old.access /\ f \in Maps(Tokens, Clients) /\ Of(old.clients, f)
    BY <1>2 DEF States, Sound, Consistent
  <2>2. PICK u : u = ts[1] /\ u \in Tokens
    BY <1>7
  <2>3. PICK access : access = With(f, u, c)
    OBVIOUS
  <2>4. /\ access \in Maps(Tokens, Clients)
        /\ DOMAIN access = DOMAIN f \cup {u}
        /\ Of(old.clients, access)
    BY <1>7a, <2>1, <2>2, <2>3, TokenAdded
  <2> QED
    BY <2>1, <2>2, <2>3, <2>4
<1>9. PICK refresh : /\ refresh = With(old.refresh, ts[2], c) /\ refresh \in Maps(Tokens, Clients)
                     /\ DOMAIN refresh = DOMAIN old.refresh \cup {ts[2]} /\ Of(old.clients, refresh)
  <2>1. PICK f : f = old.refresh /\ f \in Maps(Tokens, Clients) /\ Of(old.clients, f)
    BY <1>2 DEF States, Sound, Consistent
  <2>2. PICK u : u = ts[2] /\ u \in Tokens
    BY <1>7
  <2>3. PICK refresh : refresh = With(f, u, c)
    OBVIOUS
  <2>4. /\ refresh \in Maps(Tokens, Clients)
        /\ DOMAIN refresh = DOMAIN f \cup {u}
        /\ Of(old.clients, refresh)
    BY <1>7a, <2>1, <2>2, <2>3, TokenAdded
  <2> QED
    BY <2>1, <2>2, <2>3, <2>4
<1>10. PICK st : st = [old EXCEPT !.auth = new, !.access = access, !.refresh = refresh]
  OBVIOUS
<1>11. /\ st \in States /\ st.auth = new /\ st.access = access /\ st.refresh = refresh
       /\ st.clients = old.clients /\ st.pending = old.pending /\ st.codes = old.codes
       /\ st.kind = old.kind
  BY <1>2, <1>6, <1>8, <1>9, <1>10 DEF States
<1>12. Issue([old EXCEPT !.auth = Without(@, {a})], old.auth[a], ts) = st
  <2>1. PICK mid : mid = [old EXCEPT !.auth = new]
    OBVIOUS
  <2>2. mid.access = old.access /\ mid.refresh = old.refresh
    BY <1>2, <2>1 DEF States
  <2>3. Issue(mid, c, ts) = [mid EXCEPT !.access = access, !.refresh = refresh]
    BY <1>8, <1>9, <2>2 DEF Issue
  <2>4. [mid EXCEPT !.access = access, !.refresh = refresh] = st
    BY <1>2, <1>10, <2>1 DEF States
  <2> QED
    BY <1>4, <1>5, <2>1, <2>3, <2>4
<1>13. a \in Redeemable(old) /\ DOMAIN old.refresh \ {a} = DOMAIN old.refresh
  BY <1>2, <1>3 DEF Redeemable, States, Maps, OAuthAssumption
<1>14. /\ DOMAIN st.refresh = (DOMAIN old.refresh \ {a}) \cup {ts[2]}
       /\ Of(old.clients, st.auth)
       /\ DOMAIN st.auth = DOMAIN old.auth \ {a}
  BY <1>6, <1>9, <1>11, <1>13
<1>15. /\ Flush("server", st, None, Range(ts)) /\ fresh' = fresh \ Range(ts)
       /\ redeemed' = [redeemed EXCEPT ![a] = @ + 1]
       /\ UNCHANGED <<file, tmp, late, told, paired, crashes>>
  BY <1>3, <1>12
<1> QED
  BY <1>1, <1>2, <1>4, <1>8, <1>9, <1>11, <1>13, <1>14, <1>15, RedeemOK

\* The token endpoint rotates a refresh token.
LEMMA ExchangeRefreshTokenOK ==
    ASSUME OAuthAssumption, ~Concurrent, IInv, NEW t \in Tokens, ExchangeRefreshToken(t)
    PROVE  IInv'
<1>1. job["command"].pc = "idle" /\ ~Busy("server")
  BY AtRest DEF ExchangeRefreshToken, Serve, Processes, Busy
<1>2. PICK old : /\ old = Loaded("server")
                 /\ old \in States /\ Sound(old) /\ Spent(old)
  BY <1>1, LoadedSound
<1>3. PICK ts \in Pairs :
        /\ t \in DOMAIN old.refresh \cap told /\ old.refresh[t] \in old.clients
        /\ Flush("server", Issue(Rotated(old, t), old.refresh[t], ts), None, Range(ts))
        /\ fresh' = fresh \ Range(ts)
        /\ redeemed' = [redeemed EXCEPT ![t] = @ + 1]
        /\ UNCHANGED <<file, tmp, late, told, paired, crashes>>
  BY <1>2 DEF ExchangeRefreshToken
<1>4. PICK c : c = old.refresh[t] /\ c \in old.clients /\ c \in Clients
  BY <1>2, <1>3 DEF States
<1>5. PICK left : /\ left = Without(old.refresh, {t}) /\ left \in Maps(Tokens, Clients)
                  /\ DOMAIN left = DOMAIN old.refresh \ {t}
                  /\ Of(old.clients, left)
  <2>1. PICK f : f = old.refresh /\ f \in Maps(Tokens, Clients) /\ Of(old.clients, f)
    BY <1>2 DEF States, Sound, Consistent
  <2>2. PICK left : left = Without(f, {t})
    OBVIOUS
  <2>3. /\ left \in Maps(Tokens, Clients)
        /\ DOMAIN left = DOMAIN f \ {t}
        /\ Of(old.clients, left)
    BY <2>1, <2>2, TokenTaken
  <2> QED
    BY <2>1, <2>2, <2>3
<1>6. ts[1] \in Tokens /\ ts[2] \in Tokens
  BY <1>3 DEF Pairs
<1>6a. c \in Clients /\ c \in old.clients
  BY <1>4
<1>7. PICK access : /\ access = With(old.access, ts[1], c) /\ access \in Maps(Tokens, Clients)
                    /\ DOMAIN access = DOMAIN old.access \cup {ts[1]} /\ Of(old.clients, access)
  <2>1. PICK f : f = old.access /\ f \in Maps(Tokens, Clients) /\ Of(old.clients, f)
    BY <1>2 DEF States, Sound, Consistent
  <2>2. PICK u : u = ts[1] /\ u \in Tokens
    BY <1>6
  <2>3. PICK access : access = With(f, u, c)
    OBVIOUS
  <2>4. /\ access \in Maps(Tokens, Clients)
        /\ DOMAIN access = DOMAIN f \cup {u}
        /\ Of(old.clients, access)
    BY <1>6a, <2>1, <2>2, <2>3, TokenAdded
  <2> QED
    BY <2>1, <2>2, <2>3, <2>4
<1>8. PICK refresh : /\ refresh = With(left, ts[2], c) /\ refresh \in Maps(Tokens, Clients)
                     /\ DOMAIN refresh = DOMAIN left \cup {ts[2]} /\ Of(old.clients, refresh)
  <2>1. PICK u : u = ts[2] /\ u \in Tokens
    BY <1>6
  <2>2. PICK refresh : refresh = With(left, u, c)
    OBVIOUS
  <2>3. /\ refresh \in Maps(Tokens, Clients)
        /\ DOMAIN refresh = DOMAIN left \cup {u}
        /\ Of(old.clients, refresh)
    <3>1. left \in Maps(Tokens, Clients) /\ Of(old.clients, left)
      BY <1>5
    <3>2. u \in Tokens
      BY <2>1
    <3> QED
      BY <1>6a, <2>2, <3>1, <3>2, TokenAdded
  <2> QED
    BY <2>1, <2>2, <2>3
<1>9. PICK st : st = [old EXCEPT !.access = access, !.refresh = refresh]
  OBVIOUS
<1>10. /\ st \in States /\ st.auth = old.auth /\ st.access = access /\ st.refresh = refresh
       /\ st.clients = old.clients /\ st.pending = old.pending /\ st.codes = old.codes
       /\ st.kind = old.kind
  BY <1>2, <1>7, <1>8, <1>9 DEF States
<1>11. Issue(Rotated(old, t), old.refresh[t], ts) = st
  <2>1. PICK mid : mid = Rotated(old, t)
    OBVIOUS
  <2>2. mid = [old EXCEPT !.refresh = left]
    BY <1>5, <2>1 DEF Rotated
  <2>3. mid.access = old.access /\ mid.refresh = left
    BY <1>2, <2>2 DEF States
  <2>4. Issue(mid, c, ts) = [mid EXCEPT !.access = access, !.refresh = refresh]
    BY <1>7, <1>8, <2>3 DEF Issue
  <2>5. [mid EXCEPT !.access = access, !.refresh = refresh] = st
    BY <1>2, <1>9, <2>2 DEF States
  <2> QED
    BY <1>4, <2>1, <2>4, <2>5
<1>12. t \in Redeemable(old) /\ DOMAIN old.auth \ {t} = DOMAIN old.auth
  BY <1>2, <1>3 DEF Redeemable, States, Maps, OAuthAssumption
<1>13. /\ DOMAIN st.refresh = (DOMAIN old.refresh \ {t}) \cup {ts[2]}
       /\ Of(old.clients, st.auth)
       /\ DOMAIN st.auth = DOMAIN old.auth \ {t}
  BY <1>2, <1>5, <1>8, <1>10, <1>12 DEF Sound, Consistent
<1>14. /\ Flush("server", st, None, Range(ts)) /\ fresh' = fresh \ Range(ts)
       /\ redeemed' = [redeemed EXCEPT ![t] = @ + 1]
       /\ UNCHANGED <<file, tmp, late, told, paired, crashes>>
  BY <1>3, <1>11
<1> QED
  BY <1>1, <1>2, <1>4, <1>7, <1>8, <1>10, <1>12, <1>13, <1>14, RedeemOK

\* A client revokes a token.
LEMMA RevokeTokenOK ==
    ASSUME OAuthAssumption, ~Concurrent, IInv, NEW t \in Tokens, RevokeToken(t)
    PROVE  IInv'
<1>1. job["command"].pc = "idle" /\ ~Busy("server")
  BY AtRest DEF RevokeToken, Serve, Processes, Busy
<1>2. PICK old : /\ old = Loaded("server")
                 /\ old \in States /\ Sound(old) /\ Spent(old)
  BY <1>1, LoadedSound
<1>3. PICK access : /\ access = Without(old.access, {t}) /\ access \in Maps(Tokens, Clients)
                    /\ DOMAIN access = DOMAIN old.access \ {t}
                  /\ Of(old.clients, access)
  <2>1. PICK f : f = old.access /\ f \in Maps(Tokens, Clients) /\ Of(old.clients, f)
    BY <1>2 DEF States, Sound, Consistent
  <2>2. PICK access : access = Without(f, {t})
    OBVIOUS
  <2>3. /\ access \in Maps(Tokens, Clients)
        /\ DOMAIN access = DOMAIN f \ {t}
        /\ Of(old.clients, access)
    BY <2>1, <2>2, TokenTaken
  <2> QED
    BY <2>1, <2>2, <2>3
<1>4. PICK refresh : /\ refresh = Without(old.refresh, {t}) /\ refresh \in Maps(Tokens, Clients)
                     /\ DOMAIN refresh = DOMAIN old.refresh \ {t}
                  /\ Of(old.clients, refresh)
  <2>1. PICK f : f = old.refresh /\ f \in Maps(Tokens, Clients) /\ Of(old.clients, f)
    BY <1>2 DEF States, Sound, Consistent
  <2>2. PICK refresh : refresh = Without(f, {t})
    OBVIOUS
  <2>3. /\ refresh \in Maps(Tokens, Clients)
        /\ DOMAIN refresh = DOMAIN f \ {t}
        /\ Of(old.clients, refresh)
    BY <2>1, <2>2, TokenTaken
  <2> QED
    BY <2>1, <2>2, <2>3
<1>5. PICK st : st = [old EXCEPT !.access = access, !.refresh = refresh]
  OBVIOUS
<1>6. /\ st \in States /\ st.auth = old.auth /\ st.access = access /\ st.refresh = refresh
      /\ st.clients = old.clients /\ st.pending = old.pending /\ st.codes = old.codes
      /\ st.kind = old.kind
  BY <1>2, <1>3, <1>4, <1>5 DEF States
<1>7. /\ Flush("server", st, None, {})
      /\ UNCHANGED <<file, tmp, late, fresh, paired, redeemed, crashes>>
      /\ told' = told \ {t}
  BY <1>2, <1>3, <1>4, <1>5 DEF RevokeToken
<1>8. Sound(st)'
  <2>1. Consistent(st)' /\ Unknown(st)'
    BY <1>2, <1>3, <1>4, <1>6, <1>7 DEF Sound, Consistent, Unknown, Issued
  <2>2. Kept(st)'
    BY <1>2, <1>3, <1>4, <1>6, <1>7 DEF Sound, Kept, Issued, Used
  <2> QED
    BY <1>2, <1>6, <2>1, <2>2 DEF Sound
<1>9. Spent(st)' /\ Counted'
  BY <1>2, <1>4, <1>6, <1>7 DEF Spent, Redeemable, Counted, IInv
<1> QED
  <2>1. "server" \in Processes /\ Others("server") = "command"
    BY DEF Processes, Others
  <2>2. StaysUsed /\ told' \subseteq told
    BY <1>7 DEF StaysUsed, Used
  <2>3. /\ paired' \in [PairingCodes -> SUBSET Clients]
        /\ redeemed' \in [AuthCodes \cup Tokens -> Nat]
    BY <1>7 DEF IInv, Types
  <2> QED
    BY <1>1, <1>6, <1>7, <1>8, <1>9, <2>1, <2>2, <2>3, FlushOK
-----------------------------------------------------------------------------
(* The steps of a write, and what else happens                             *)

\* The copy is opened, and then filled.
LEMMA OpenFillOK ==
    ASSUME IInv, NEW p \in Processes, OpenTmp(p) \/ FillTmp(p)
    PROVE  IInv'
<1>1. /\ UNCHANGED <<file, mem, late, fresh, told, paired, redeemed, crashes>>
      /\ Busy(p)
  BY DEF OpenTmp, FillTmp, history, Busy
<1>2. /\ job' = [job EXCEPT ![p].pc = job'[p].pc]
      /\ \/ job[p].pc = "open" /\ job'[p].pc = "fill" /\ tmp' = Torn
         \/ job[p].pc = "fill" /\ job'[p].pc = "replace" /\ tmp' = mem[p]
  <2>1. CASE OpenTmp(p)
    BY <2>1 DEF OpenTmp, IInv, Types
  <2>2. CASE FillTmp(p)
    <3>1. tmp # Absent
      BY <2>2, NewState DEF FillTmp, IInv, Writers
    <3> QED
      BY <2>2, <3>1 DEF FillTmp, IInv, Types
  <2> QED
    BY <2>1, <2>2
<1>3. /\ job'[p].pc \in {"fill", "replace"} /\ job'[p].then = job[p].then
      /\ job'[p].tell = job[p].tell /\ \A q \in Processes \ {p} : job'[q] = job[q]
      /\ Others(p) \in Processes \ {p} /\ \A q \in Processes \ {p} : q = Others(p)
  BY <1>2 DEF IInv, Types, Processes, Others
<1>4. Types'
  <2>1. job' \in [Processes -> [pc : {"idle", "open", "fill", "replace", "authorize"},
                                then : Clients \cup {None}, tell : SUBSET Ids]]
    BY <1>2 DEF IInv, Types
  <2>2. tmp' \in States
    BY <1>2, NewState DEF IInv, Types
  <2> QED
    BY <1>1, <2>1, <2>2 DEF IInv, Types
<1>5. Busy("server")' = Busy("server")
  BY <1>1, <1>3 DEF Busy, Processes
<1>6. FileSound'
  BY <1>1, <1>5 DEF IInv, FileSound, Sound, Consistent, Unknown, Kept, Issued, Used, Spent,
                    Redeemable
<1>7. Writers'
  <2>1. /\ Sound(mem[p])' /\ Spent(mem[p])'
        /\ job'[p].tell \subseteq Clients \cup mem'[p].codes \cup Issued(mem[p])'
        /\ job'[p].then # None => job'[p].then \in mem'[p].clients
    BY <1>1, <1>3 DEF IInv, Writers, Sound, Consistent, Unknown, Kept, Issued, Used, Spent,
                      Redeemable
  <2>2. job'[Others(p)].pc = "idle"
    BY <1>1, <1>3 DEF IInv, Writers, Busy
  <2>3. ~Busy(Others(p))'
    BY <2>2 DEF Busy, Others
  <2>4. job'[p].pc = "fill" => tmp' = Torn
    BY <1>2
  <2>5. job'[p].pc = "replace" => tmp' = mem'[p]
    BY <1>1, <1>2
  <2> SUFFICES ASSUME NEW q \in Processes
               PROVE  /\ Busy(q)' =>
                          /\ Sound(mem[q])' /\ Spent(mem[q])'
                          /\ job'[q].tell \subseteq Clients \cup mem'[q].codes \cup Issued(mem[q])'
                          /\ job'[q].then # None => job'[q].then \in mem'[q].clients
                      /\ job'[q].pc # "idle" => job'[Others(q)].pc = "idle"
                      /\ job'[q].pc = "fill" => tmp' = Torn
                      /\ job'[q].pc = "replace" => tmp' = mem'[q]
    BY DEF Writers, Others
  <2>6. CASE q = p
    BY <2>1, <2>2, <2>4, <2>5, <2>6
  <2>7. CASE q # p
    <3>1. q = Others(p)
      BY <1>3, <2>7
    <3> QED
      BY <2>2, <2>3, <3>1
  <2> QED
    BY <2>6, <2>7
<1>8. Authorizing'
  BY <1>1, <1>3 DEF IInv, Authorizing, Processes
<1>9. Counted'
  BY <1>1 DEF IInv, Counted
<1> QED
  BY <1>4, <1>6, <1>7, <1>8, <1>9 DEF IInv

\* The copy becomes the file, and what it adds is handed out.
LEMMA ReplaceOK ==
    ASSUME IInv, NEW p \in Processes, Replace(p)
    PROVE  IInv'
<1>1. /\ job[p].pc = "replace" /\ Busy(p) /\ tmp = mem[p] /\ Sound(mem[p]) /\ Spent(mem[p])
      /\ job[p].tell \subseteq Clients \cup mem[p].codes \cup Issued(mem[p])
      /\ job[p].then # None => job[p].then \in mem[p].clients
      /\ job[Others(p)].pc = "idle"
  BY DEF Replace, IInv, Writers, Busy
<1>2. tmp # Absent
  BY <1>1, NewState DEF Sound
<1>3. /\ file' = mem[p] /\ tmp' = Absent /\ told' = told \cup job[p].tell
      /\ job' = [job EXCEPT ![p] = IF @.then = None THEN Quiet ELSE [@ EXCEPT !.pc = "authorize"]]
      /\ mem' = [mem EXCEPT !["command"] = IF p = "command" THEN New ELSE @]
      /\ UNCHANGED <<late, fresh, paired, redeemed, crashes>>
  BY <1>1, <1>2 DEF Replace
<1>4. /\ job'[p].pc = IF job[p].then = None THEN "idle" ELSE "authorize"
      /\ job'[p].then = job[p].then /\ job'[p].pc \in {"idle", "authorize"}
      /\ job'[Others(p)] = job[Others(p)] /\ Others(p) \in Processes \ {p}
      /\ \A q \in Processes \ {p} : q = Others(p)
  BY <1>3 DEF IInv, Types, Quiet, Processes, Others
<1>5. Types'
  <2>1. job' \in [Processes -> [pc : {"idle", "open", "fill", "replace", "authorize"},
                                then : Clients \cup {None}, tell : SUBSET Ids]]
    BY <1>3 DEF IInv, Types, Quiet
  <2>2. mem' \in [Processes -> States]
    BY <1>3, NewState DEF IInv, Types
  <2>3. file' \in States /\ tmp' \in States
    BY <1>3, NewState DEF IInv, Types
  <2>4. told' \subseteq Ids
    BY <1>3 DEF IInv, Types
  <2> QED
    BY <1>3, <2>1, <2>2, <2>3, <2>4 DEF IInv, Types
<1>6. \A q \in Processes : ~Busy(q)'
  BY <1>1, <1>4 DEF Busy
<1>7. FileSound'
  <2>1. PICK st : st = mem[p]
    OBVIOUS
  <2>2. Sound(st)'
    <3>1. st.kind = "whole" /\ Consistent(st)'
      BY <1>1, <2>1 DEF Sound, Consistent
    <3>2. Unknown(st)'
      BY <1>1, <1>3, <2>1 DEF Sound, Unknown, Issued
    <3>3. Kept(st)'
      BY <1>1, <1>3, <2>1 DEF Sound, Kept, Issued, Used
    <3> QED
      BY <3>1, <3>2, <3>3 DEF Sound
  <2>3. Spent(st)'
    BY <1>1, <1>3, <2>1 DEF Spent, Redeemable
  <2>4. file' = st /\ st.kind = "whole"
    BY <1>1, <1>3, <2>1 DEF Sound
  <2>5. Sound(file)' /\ Spent(file)'
    BY <2>2, <2>3, <2>4 DEF Sound, Consistent, Unknown, Kept, Issued, Spent, Redeemable
  <2> QED
    BY <2>4, <2>5 DEF FileSound
<1>8. Writers'
  <2>1. \A q \in Processes : job'[q].pc \notin {"open", "fill", "replace"}
    BY <1>6 DEF Busy
  <2>2. \A q \in Processes : job'[q].pc # "idle" => q = p
    BY <1>1, <1>4
  <2>3. \A q \in Processes : job'[q].pc # "idle" => job'[Others(q)].pc = "idle"
    BY <1>1, <1>4, <2>2
  <2> QED
    BY <1>6, <2>1, <2>3 DEF Writers, Busy, Others
<1>9. Authorizing'
  <2>1. CASE p = "command"
    <3>1. job[p].then = None /\ job'["command"].then = None /\ job'["command"].pc = "idle"
      BY <1>4, <2>1 DEF IInv, Authorizing
    <3>2. job'["server"].pc = "idle"
      BY <1>1, <1>4, <2>1 DEF Others
    <3> QED
      BY <3>1, <3>2 DEF Authorizing
  <2>2. CASE p = "server"
    <3>1. job'["command"] = job["command"]
      BY <1>4, <2>2 DEF Others
    <3>2. job'["server"].pc = "authorize" => job'["server"].then \in file'.clients
      BY <1>1, <1>3, <1>4, <2>2
    <3>3. file'.kind = "whole"
      BY <1>1, <1>3 DEF Sound
    <3> QED
      BY <3>1, <3>2, <3>3 DEF IInv, Authorizing
  <2> QED
    BY <2>1, <2>2 DEF Processes
<1>10. Counted'
  BY <1>3 DEF IInv, Counted
<1> QED
  BY <1>5, <1>7, <1>8, <1>9, <1>10 DEF IInv

\* An entry expires.
LEMMA ExpireOK == ASSUME IInv, Expire PROVE IInv'
<1>1. /\ UNCHANGED <<file, tmp, mem, job, fresh, told, paired, redeemed, crashes>>
      /\ late \subseteq late' /\ late' \subseteq Ids
  BY DEF Expire, history, IInv, Types
<1>2. Types'
  BY <1>1 DEF IInv, Types
<1>3. FileSound'
  BY <1>1 DEF IInv, FileSound, Busy, Sound, Consistent, Unknown, Kept, Issued, Used, Spent,
              Redeemable
<1>4. Writers'
  BY <1>1 DEF IInv, Writers, Busy, Others, Sound, Consistent, Unknown, Kept, Issued, Used, Spent,
              Redeemable
<1>5. Authorizing' /\ Counted'
  BY <1>1 DEF IInv, Authorizing, Counted
<1> QED
  BY <1>2, <1>3, <1>4, <1>5 DEF IInv

\* A second passes, after which another attempt is allowed.
LEMMA Calmed ==
    ASSUME NEW st \in States, NEW new,
           new = [st EXCEPT !.pending =
                     [c \in DOMAIN st.pending |-> [st.pending[c] EXCEPT !.recent = FALSE]]]
    PROVE  /\ new \in States /\ DOMAIN new.pending = DOMAIN st.pending
           /\ new.clients = st.clients /\ new.codes = st.codes /\ new.kind = st.kind
           /\ new.auth = st.auth /\ new.access = st.access /\ new.refresh = st.refresh
<1>1. PICK D \in SUBSET Clients : st.pending \in [D -> Pending]
  BY DEF States, Maps
<1>2. PICK calm : calm = [c \in DOMAIN st.pending |-> [st.pending[c] EXCEPT !.recent = FALSE]]
  OBVIOUS
<1>3. \A c \in D : [st.pending[c] EXCEPT !.recent = FALSE] \in Pending
  BY <1>1 DEF Pending
<1>4. calm \in [D -> Pending] /\ DOMAIN calm = DOMAIN st.pending
  BY <1>1, <1>2, <1>3
<1>5. calm \in Maps(Clients, Pending)
  BY <1>4 DEF Maps
<1>6. new = [st EXCEPT !.pending = calm]
  BY <1>2
<1> QED
  BY <1>4, <1>5, <1>6 DEF States

\* That second.
LEMMA SecondOK == ASSUME IInv, Second PROVE IInv'
<1>1. PICK new, own :
        /\ new = [file EXCEPT !.pending =
                     [c \in DOMAIN file.pending |-> [file.pending[c] EXCEPT !.recent = FALSE]]]
        /\ own = [mem["server"] EXCEPT !.pending =
                     [c \in DOMAIN mem["server"].pending |->
                         [mem["server"].pending[c] EXCEPT !.recent = FALSE]]]
        /\ file' = new /\ mem' = [mem EXCEPT !["server"] = own]
  BY DEF Second
<1>2. /\ UNCHANGED <<tmp, job, late, fresh, told, paired, redeemed, crashes>>
      /\ file.kind = "whole" /\ job["server"].pc = "idle" /\ job["command"].pc = "idle"
  BY DEF Second, history, Processes
<1>3. /\ new \in States /\ DOMAIN new.pending = DOMAIN file.pending
      /\ new.clients = file.clients /\ new.codes = file.codes /\ new.kind = file.kind
      /\ new.auth = file.auth /\ new.access = file.access /\ new.refresh = file.refresh
  <2>1. file \in States
    BY DEF IInv, Types
  <2> QED
    BY <1>1, <2>1, Calmed
<1>4. own \in States
  <2>1. PICK st \in States : st = mem["server"]
    BY DEF IInv, Types, Processes
  <2>2. own = [st EXCEPT !.pending =
                  [c \in DOMAIN st.pending |-> [st.pending[c] EXCEPT !.recent = FALSE]]]
    BY <1>1, <2>1
  <2> QED
    BY <2>2, Calmed
<1>5. Types'
  BY <1>1, <1>2, <1>3, <1>4 DEF IInv, Types
<1>6. FileSound'
  <2>1. Sound(file) /\ Spent(file)
    BY <1>2 DEF IInv, FileSound, Busy
  <2>2. Sound(new)' /\ Spent(new)'
    BY <1>2, <1>3, <2>1 DEF Sound, Consistent, Unknown, Kept, Issued, Used, Spent, Redeemable
  <2>3. Sound(file)' /\ Spent(file)'
    BY <1>1, <2>2 DEF Sound, Consistent, Unknown, Kept, Issued, Used, Spent, Redeemable
  <2> QED
    BY <1>1, <1>2, <1>3, <2>3 DEF FileSound
<1>7. Writers'
  BY <1>2 DEF IInv, Writers, Busy, Processes, Others
<1>8. Authorizing' /\ Counted'
  BY <1>2 DEF IInv, Authorizing, Counted
<1> QED
  BY <1>5, <1>6, <1>7, <1>8 DEF IInv

\* The server dies and starts again: what it was about to write is lost, and
\* what it redeemed may be redeemed again.
LEMMA RestartOK == ASSUME OAuthAssumption, IInv, Restart PROVE IInv'
<1>1. /\ UNCHANGED <<file, tmp, late, fresh, told, paired, redeemed>>
      /\ crashes' = crashes + 1 /\ crashes < MaxCrashes /\ crashes \in Nat /\ MaxCrashes \in Nat
      /\ mem' = [mem EXCEPT !["server"] = Read(file, New)]
      /\ job' = [job EXCEPT !["server"] = Quiet]
  BY DEF Restart, history, IInv, Types, OAuthAssumption
<1>2. /\ job'["server"].pc = "idle" /\ job'["server"].then = None
      /\ job'["command"] = job["command"] /\ mem'["command"] = mem["command"]
      /\ mem'["server"] = Read(file, New) /\ ~Busy("server")'
  BY <1>1 DEF IInv, Types, Processes, Quiet, Busy
<1>3. Types'
  <2>1. Read(file, New) \in States
    BY NewState DEF IInv, Types, Read
  <2>2. Quiet \in [pc : {"idle", "open", "fill", "replace", "authorize"},
                   then : Clients \cup {None}, tell : SUBSET Ids]
    BY DEF Quiet
  <2>3. crashes' \in 0 .. MaxCrashes
    BY <1>1
  <2>4. mem' \in [Processes -> States]
    BY <1>1, <2>1 DEF IInv, Types
  <2>5. job' \in [Processes -> [pc : {"idle", "open", "fill", "replace", "authorize"},
                                then : Clients \cup {None}, tell : SUBSET Ids]]
    BY <1>1, <2>2 DEF IInv, Types
  <2> QED
    BY <1>1, <2>3, <2>4, <2>5 DEF IInv, Types
<1>4. \A k \in PairingCodes : Cardinality(paired[k]) \in Nat /\ Cardinality(paired[k]) <= crashes'
  BY <1>1, FS_CardinalityType DEF IInv, Counted
<1>5. \A t \in AuthCodes \cup Tokens : redeemed[t] \in Nat /\ redeemed[t] <= crashes'
  BY <1>1 DEF IInv, Counted, Types
<1>6. FileSound'
  <2>1. ASSUME file.kind = "whole" PROVE Sound(file)' /\ Spent(file)'
    <3>1. Sound(file)'
      BY <1>1, <2>1 DEF IInv, FileSound, Sound, Consistent, Unknown, Kept, Issued, Used
    <3>2. file.codes \subseteq PairingCodes /\ Redeemable(file) \subseteq AuthCodes \cup Tokens
      BY DEF IInv, Types, States, Maps, Redeemable
    <3>3. Spent(file)'
      BY <1>1, <1>4, <1>5, <3>2 DEF Spent, Redeemable
    <3> QED
      BY <3>1, <3>3
  <2>2. ASSUME file.kind # "whole" PROVE file' = Absent /\ told' = {} /\ mem'["server"] = New
    BY <1>1, <1>2, <2>2 DEF IInv, FileSound, Read
  <2> QED
    BY <1>1, <2>1, <2>2 DEF FileSound
<1>7. Writers'
  <2>1. Busy("command")' => Busy("command")
    BY <1>2 DEF Busy
  <2>2. ASSUME Busy("command")' PROVE Sound(mem["command"])' /\ Spent(mem["command"])'
    <3>1. Sound(mem["command"]) /\ Spent(mem["command"]) /\ mem["command"] \in States
      BY <2>1, <2>2 DEF IInv, Writers, Types, Processes
    <3>2. Sound(mem["command"])'
      BY <1>1, <1>2, <3>1 DEF Sound, Consistent, Unknown, Kept, Issued, Used
    <3>3. mem["command"].codes \subseteq PairingCodes
          /\ Redeemable(mem["command"]) \subseteq AuthCodes \cup Tokens
      BY <3>1 DEF States, Maps, Redeemable
    <3>4. Spent(mem["command"])'
      BY <1>1, <1>2, <1>4, <1>5, <3>3 DEF Spent, Redeemable
    <3> QED
      BY <3>2, <3>4
  <2>3. Busy("command")' =>
            job'["command"].tell
                \subseteq Clients \cup mem'["command"].codes \cup Issued(mem["command"])'
    BY <1>2, <2>1 DEF IInv, Writers, Processes, Issued
  <2>4. job'["command"].then = None
    BY <1>2 DEF IInv, Authorizing
  <2>5. /\ job'["command"].pc = "fill" => tmp' = Torn
        /\ job'["command"].pc = "replace" => tmp' = mem'["command"]
    BY <1>1, <1>2 DEF IInv, Writers, Processes
  <2> QED
    BY <1>2, <2>2, <2>3, <2>4, <2>5 DEF Writers, Processes, Others
<1>8. Authorizing'
  BY <1>2 DEF IInv, Authorizing
<1>9. Counted'
  BY <1>1, <1>4, <1>5 DEF IInv, Counted
<1> QED
  BY <1>3, <1>6, <1>7, <1>8, <1>9 DEF IInv
-----------------------------------------------------------------------------
(* The theorems                                                            *)

\* Every step keeps the invariant, when a process writes only at rest.
LEMMA StepOK == ASSUME OAuthAssumption, ~Concurrent, IInv, [Next]_vars PROVE IInv'
<1>1. CASE \E p \in Processes : OpenTmp(p) \/ FillTmp(p) \/ Replace(p)
  BY <1>1, OpenFillOK, ReplaceOK
<1>2. CASE \E k \in PairingCodes : CreatePairingCode(k)
  BY <1>2, CreatePairingCodeOK
<1>3. ASSUME NEW c \in Clients,
             \/ RegisterClient(c) \/ ShowForm(c)
             \/ \E k \in PairingCodes : ActivatePendingClient(c, k)
             \/ \E a \in AuthCodes : Authorize(c, a)
      PROVE  IInv'
  BY <1>3, RegisterClientOK, ShowFormOK, ActivatePendingClientOK, AuthorizeOK
<1>4. CASE \E a \in AuthCodes : ExchangeAuthorizationCode(a)
  BY <1>4, ExchangeAuthorizationCodeOK
<1>5. CASE \E t \in Tokens : ExchangeRefreshToken(t) \/ RevokeToken(t)
  BY <1>5, ExchangeRefreshTokenOK, RevokeTokenOK
<1>6. CASE Expire \/ Second \/ Restart
  BY <1>6, ExpireOK, SecondOK, RestartOK
<1>7. CASE UNCHANGED vars
  BY <1>7 DEF vars, IInv, Types, FileSound, Writers, Authorizing, Counted, Busy, Others, Sound,
              Consistent, Unknown, Kept, Issued, Used, Spent, Redeemable
<1> QED
  BY <1>1, <1>2, <1>3, <1>4, <1>5, <1>6, <1>7 DEF Next

\* The invariant holds in every reachable state.
THEOREM Invariance == ASSUME ~Concurrent PROVE Spec => []IInv
<1>1. Init => IInv
  BY InitOK, OAuthAssumption
<1>2. IInv /\ [Next]_vars => IInv'
  BY StepOK, OAuthAssumption
<1> QED
  BY <1>1, <1>2, PTL DEF Spec

\* The file is never torn, a client in it is active or pending, never both, and
\* every code and token in it belongs to an active client.
THEOREM FileStaysConsistent == ASSUME ~Concurrent PROVE Spec => []FileConsistent
<1>1. IInv => FileConsistent
  <2> SUFFICES ASSUME IInv PROVE FileConsistent
    OBVIOUS
  <2>1. CASE file.kind = "whole"
    <3>1. Sound(file) /\ file # Torn /\ file \in States
      BY <2>1, NewState DEF IInv, Types, FileSound
    <3>2. Range(file.auth) \cup Range(file.access) \cup Range(file.refresh) \subseteq file.clients
      BY <3>1 DEF Sound, Consistent, Of, Range
    <3> QED
      BY <3>1, <3>2 DEF FileConsistent, Sound, Consistent
  <2>2. CASE file.kind # "whole"
    <3>1. file = Absent
      BY <2>2 DEF IInv, FileSound
    <3>2. /\ Absent.clients = {} /\ Absent # Torn
          /\ DOMAIN Absent.auth = {} /\ DOMAIN Absent.access = {} /\ DOMAIN Absent.refresh = {}
      BY NewState DEF Absent, New, Torn, States
    <3> QED
      BY <3>1, <3>2 DEF FileConsistent, Range
  <2> QED
    BY <2>1, <2>2
<1> QED
  BY <1>1, Invariance, PTL

\* A code or a token that somebody was handed is in the file, until it is used,
\* revoked or expires, whatever was being written when the server died.
THEOREM NothingHandedOutIsLost == ASSUME ~Concurrent PROVE Spec => []HandedOutKept
<1>1. IInv => HandedOutKept
  <2> SUFFICES ASSUME IInv PROVE HandedOutKept
    OBVIOUS
  <2>1. CASE file.kind = "whole"
    <3>1. Kept(file) /\ file # Absent
      BY <2>1, NewState DEF IInv, FileSound, Sound
    <3> QED
      BY <3>1 DEF HandedOutKept, Kept, Used
  <2>2. CASE file.kind # "whole"
    BY <2>2 DEF IInv, FileSound, HandedOutKept
  <2> QED
    BY <2>1, <2>2
<1> QED
  BY <1>1, Invariance, PTL

\* A pairing code activates one client and an authorization code or a refresh
\* token is redeemed once, and once more for each time the server dies.
THEOREM RedeemedOnceForEachCrash == ASSUME ~Concurrent PROVE Spec => []RedeemedOnce
<1>1. IInv => RedeemedOnce
  BY DEF IInv, Counted, RedeemedOnce, Types
<1> QED
  BY <1>1, Invariance, PTL

\* The states of the file and of the processes have their types.
THEOREM TypeCorrect == ASSUME ~Concurrent PROVE Spec => []TypeOK
<1>1. ASSUME NEW st \in States
      PROVE  /\ DOMAIN st = DOMAIN New
             /\ st.clients \subseteq Clients /\ st.codes \subseteq PairingCodes
             /\ DOMAIN st.auth \subseteq AuthCodes
             /\ DOMAIN st.access \cup DOMAIN st.refresh \subseteq Tokens
             /\ \A c \in DOMAIN st.pending : st.pending[c].failed < MaxFailed
  <2>1. DOMAIN st = {"clients", "pending", "codes", "auth", "access", "refresh", "kind"}
    BY DEF States
  <2>2. DOMAIN New = {"clients", "pending", "codes", "auth", "access", "refresh", "kind"}
    BY DEF New
  <2>3. st.clients \subseteq Clients /\ st.codes \subseteq PairingCodes
    BY DEF States
  <2>4. /\ DOMAIN st.auth \subseteq AuthCodes
        /\ DOMAIN st.access \cup DOMAIN st.refresh \subseteq Tokens
    BY DEF States, Maps
  <2>5. PICK D \in SUBSET Clients : st.pending \in [D -> Pending]
    BY DEF States, Maps
  <2>6. \A c \in DOMAIN st.pending : st.pending[c].failed < MaxFailed
    BY <2>5, OAuthAssumption DEF Pending, OAuthAssumption
  <2> QED
    BY <2>1, <2>2, <2>3, <2>4, <2>6
<1>2. IInv => TypeOK
  <2> SUFFICES ASSUME IInv PROVE TypeOK
    OBVIOUS
  <2>1. {file, tmp, mem["server"], mem["command"]} \subseteq States
    BY DEF IInv, Types, Processes
  <2>2. \A p \in Processes : job[p].pc \in {"idle", "open", "fill", "replace", "authorize"}
    BY DEF IInv, Types
  <2>3. crashes \in 0 .. MaxCrashes
    BY DEF IInv, Types
  <2> QED
    BY <1>1, <2>1, <2>2, <2>3 DEF TypeOK
<1> QED
  BY <1>2, Invariance, PTL
=============================================================================
