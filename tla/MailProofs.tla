------------------------------- MODULE MailProofs -------------------------------
(***************************************************************************)
(* Proofs about Mail, for any requests, workers, codes and limits: every   *)
(* loss of a code has one of the named causes, none is mailed once more    *)
(* than workers died with it, and the newest arrives last but for retries  *)
(* and overtaking.                                                         *)
(***************************************************************************)
EXTENDS Mail, TLAPS, FiniteSetTheorems

Elems(s) == {s[i] : i \in DOMAIN s}
Distinct(s) == \A i, j \in DOMAIN s : s[i] = s[j] => i = j
Before(s, c, d) == \A i, j \in DOMAIN s : s[i] = c /\ s[j] = d => i < j

Queued(c) == told[c] \in Queueing

\* A code is owed by one request, before anything was told of it; a job is in one place.
Places ==
  /\ wait \in Seq(Codes) /\ Distinct(wait)
  /\ delayed \subseteq 1 .. codes
  /\ told \in [Codes -> {"nothing", "failed"} \cup Queueing]
  /\ mailed \in [Codes -> Nat] /\ swallowed \subseteq Codes /\ overtaken \subseteq Codes
  /\ \A g, h \in Handlers : handler[g] = handler[h] /\ handler[g] # None => g = h
  /\ \A c \in Codes : c > codes \/ c \in Owed => told[c] = "nothing"
  /\ \A c \in Jobs : Queued(c)
  /\ \A c \in delayed : tries[c] > 0
  /\ \A c \in Codes : ~Queued(c) => tries[c] = 0 /\ stalls[c] = 0

\* A job whose mail is not out, as far as its worker knows, was mailed only by workers that
\* died with it.
Mails ==
  /\ OneMailPerCode
  /\ \A c \in Codes : ~Queued(c) => mailed[c] = 0
  /\ \A w \in Workers : Busy(w) /\ worker[w].sent => mailed[worker[w].job] > 0
  /\ \A c \in Jobs :
       (\A w \in Workers : worker[w].job = c => ~worker[w].sent) => mailed[c] <= stalls[c]

\* Job d comes after c, if ever.
Comes(c, d) == (d \in Waiting /\ Before(wait, c, d)) \/ (d \in lost /\ d \notin Jobs)

\* A newer job than one that nothing has held up still waits, and behind it, or was lost.
InOrder ==
  \A c, d \in Codes :
    /\ c < d /\ Queued(d)
    /\ c \in Jobs /\ tries[c] = 0 /\ stalls[c] = 0 /\ c \notin overtaken
    => mailed[d] = 0 /\ Comes(c, d)

MailInv == TypeOK /\ LossesExplained /\ Places /\ Mails /\ InOrder

-----------------------------------------------------------------------------
(* Lists of jobs. *)

\* A job is added at the end.
LEMMA AppendEffect ==
  ASSUME NEW S, NEW s \in Seq(S), NEW x \in S
  PROVE  /\ Append(s, x) \in Seq(S)
         /\ Elems(Append(s, x)) = Elems(s) \cup {x}
         /\ x \notin Elems(s) /\ Distinct(s) => Distinct(Append(s, x))
         /\ \A c, d : c # x /\ Before(s, c, d) => Before(Append(s, x), c, d)
<1> DEFINE t == Append(s, x)
           n == Len(s)
<1>1. /\ t \in Seq(S) /\ n \in Nat /\ DOMAIN s = 1 .. n /\ DOMAIN t = 1 .. n + 1
      /\ \A i \in 1 .. n : t[i] = s[i]
      /\ t[n + 1] = x
  OBVIOUS
<1> HIDE DEF t, n
<1>2. Elems(t) = Elems(s) \cup {x}
  BY <1>1 DEF Elems
<1>3. x \notin Elems(s) /\ Distinct(s) => Distinct(t)
  BY <1>1 DEF Elems, Distinct
<1>4. \A c, d : c # x /\ Before(s, c, d) => Before(t, c, d)
  BY <1>1 DEF Before
<1> QED
  BY <1>1, <1>2, <1>3, <1>4 DEF t

\* A job is put back at the head.
LEMMA PutBackEffect ==
  ASSUME NEW S, NEW s \in Seq(S), NEW x \in S
  PROVE  /\ <<x>> \o s \in Seq(S)
         /\ Elems(<<x>> \o s) = Elems(s) \cup {x}
         /\ x \notin Elems(s) /\ Distinct(s) => Distinct(<<x>> \o s)
         /\ \A c, d : d # x /\ Before(s, c, d) => Before(<<x>> \o s, c, d)
<1> DEFINE t == <<x>> \o s
           n == Len(s)
<1>1. /\ t \in Seq(S) /\ n \in Nat /\ DOMAIN s = 1 .. n /\ DOMAIN t = 1 .. n + 1
      /\ \A i \in 2 .. n + 1 : t[i] = s[i - 1]
      /\ t[1] = x
  OBVIOUS
<1> HIDE DEF t, n
<1>2. \A i \in DOMAIN t : (i = 1 /\ t[i] = x) \/ (i - 1 \in DOMAIN s /\ i > 1 /\ t[i] = s[i - 1])
  BY <1>1
<1>3. 1 \in DOMAIN t /\ \A i \in DOMAIN s : i + 1 \in DOMAIN t /\ t[i + 1] = s[i]
  BY <1>1
<1>4. Elems(t) = Elems(s) \cup {x}
  <2>1. ASSUME NEW y \in Elems(t) PROVE y \in Elems(s) \cup {x}
    BY <1>2 DEF Elems
  <2>2. ASSUME NEW y \in Elems(s) \cup {x} PROVE y \in Elems(t)
    <3>1. CASE y = x
      BY <1>1, <1>3, <3>1 DEF Elems
    <3>2. ASSUME NEW i \in DOMAIN s, y = s[i] PROVE y \in Elems(t)
      BY <1>3, <3>2 DEF Elems
    <3> QED
      BY <3>1, <3>2 DEF Elems
  <2> QED
    BY <2>1, <2>2
<1>5. ASSUME x \notin Elems(s), Distinct(s), NEW i \in DOMAIN t, NEW j \in DOMAIN t, t[i] = t[j]
      PROVE  i = j
  <2>1. /\ (i = 1 /\ t[i] = x) \/ (i - 1 \in DOMAIN s /\ t[i] = s[i - 1])
        /\ (j = 1 /\ t[j] = x) \/ (j - 1 \in DOMAIN s /\ t[j] = s[j - 1])
        /\ i \in Int /\ j \in Int
    BY <1>1, <1>2
  <2>2. i - 1 \in DOMAIN s /\ j - 1 \in DOMAIN s /\ s[i - 1] = s[j - 1] => i - 1 = j - 1
    BY <1>5 DEF Distinct
  <2> QED
    BY <1>5, <2>1, <2>2 DEF Elems
<1>6. ASSUME NEW c, NEW d, d # x, Before(s, c, d),
             NEW i \in DOMAIN t, NEW j \in DOMAIN t, t[i] = c, t[j] = d
      PROVE  i < j
  <2>1. /\ i = 1 \/ (i - 1 \in DOMAIN s /\ t[i] = s[i - 1])
        /\ j > 1 /\ j - 1 \in DOMAIN s /\ t[j] = s[j - 1]
        /\ i \in Int /\ j \in Int
    BY <1>1, <1>2, <1>6
  <2>2. i - 1 \in DOMAIN s /\ s[i - 1] = c => i - 1 < j - 1
    BY <1>6, <2>1 DEF Before
  <2> QED
    BY <1>6, <2>1, <2>2
<1> QED
  BY <1>1, <1>4, <1>5, <1>6 DEF t, Distinct, Before

\* The head of the list is taken.
LEMMA TailEffect ==
  ASSUME NEW S, NEW s \in Seq(S), s # <<>>, Distinct(s)
  PROVE  /\ Head(s) \in S /\ Tail(s) \in Seq(S) /\ Head(s) \in Elems(s)
         /\ Elems(Tail(s)) = Elems(s) \ {Head(s)}
         /\ Distinct(Tail(s))
         /\ \A c, d : Before(s, c, d) => Before(Tail(s), c, d)
         /\ \A c : Before(s, c, Head(s)) => c \notin Elems(s)
<1> DEFINE t == Tail(s)
           n == Len(s)
<1>1. /\ t \in Seq(S) /\ n \in Nat \ {0} /\ DOMAIN s = 1 .. n /\ DOMAIN t = 1 .. n - 1
      /\ \A i \in 1 .. n - 1 : t[i] = s[i + 1]
      /\ Head(s) = s[1] /\ s[1] \in S
  OBVIOUS
<1> HIDE DEF t, n
<1>2. \A i \in DOMAIN t : i \in Int /\ i + 1 \in DOMAIN s /\ i + 1 # 1 /\ t[i] = s[i + 1]
  BY <1>1
<1>3. 1 \in DOMAIN s /\ \A i \in DOMAIN s : i = 1 \/ (i - 1 \in DOMAIN t /\ t[i - 1] = s[i])
  BY <1>1
<1>4. Elems(t) = Elems(s) \ {Head(s)}
  <2>1. ASSUME NEW i \in DOMAIN t PROVE t[i] \in Elems(s) \ {Head(s)}
    <3>1. i + 1 \in DOMAIN s /\ i + 1 # 1 /\ t[i] = s[i + 1]
      BY <1>2
    <3> QED
      BY <1>1, <1>3, <3>1 DEF Elems, Distinct
  <2>2. ASSUME NEW i \in DOMAIN s, s[i] # Head(s) PROVE s[i] \in Elems(t)
    <3>1. i - 1 \in DOMAIN t /\ t[i - 1] = s[i]
      BY <1>1, <1>3, <2>2
    <3> QED
      BY <3>1 DEF Elems
  <2> QED
    BY <2>1, <2>2 DEF Elems
<1>5. ASSUME NEW i \in DOMAIN t, NEW j \in DOMAIN t
      PROVE  /\ t[i] = t[j] => i = j
             /\ \A c, d : Before(s, c, d) /\ t[i] = c /\ t[j] = d => i < j
  <2>1. /\ i + 1 \in DOMAIN s /\ t[i] = s[i + 1] /\ i \in Int
        /\ j + 1 \in DOMAIN s /\ t[j] = s[j + 1] /\ j \in Int
    BY <1>2
  <2>2. s[i + 1] = s[j + 1] => i + 1 = j + 1
    BY <2>1 DEF Distinct
  <2>3. \A c, d : Before(s, c, d) /\ s[i + 1] = c /\ s[j + 1] = d => i + 1 < j + 1
    BY <2>1 DEF Before
  <2> QED
    BY <2>1, <2>2, <2>3
<1>6. \A c : Before(s, c, Head(s)) => c \notin Elems(s)
  BY <1>1, <1>3 DEF Before, Elems
<1>7. Head(s) \in Elems(s)
  BY <1>1, <1>3 DEF Elems
<1> QED
  BY <1>1, <1>4, <1>5, <1>6, <1>7 DEF t, Distinct, Before

\* A list in which no job stands twice is as long as it has jobs.
LEMMA ListLength ==
  ASSUME NEW S, NEW s \in Seq(S), Distinct(s)
  PROVE  Len(s) = Cardinality(Elems(s))
<1>1. s \in Bijection(1 .. Len(s), Elems(s))
  BY DEF Bijection, Injection, Surjection, IsInjective, Elems, Distinct
<1>2. ExistsBijection(1 .. Len(s), Elems(s)) /\ Len(s) \in Nat
  BY <1>1 DEF ExistsBijection
<1> QED
  BY <1>2, FS_CountingElements


-----------------------------------------------------------------------------
(* What a step does to the places of a job. *)

WorkerRows(n) == [job : (1 .. n) \cup {None}, sent : BOOLEAN]

\* Codes and the places that hold them.
LEMMA Facts ==
  ASSUME MailInv
  PROVE  /\ codes \in Nat /\ codes <= MaxCodes /\ 1 .. codes \subseteq Codes
         /\ Codes \subseteq Nat /\ None \notin Codes
         /\ Waiting = Elems(wait) /\ Waiting \subseteq 1 .. codes
         /\ Jobs \subseteq 1 .. codes /\ Owed \subseteq 1 .. codes /\ Owed \cap Jobs = {}
         /\ handler \in [Handlers -> (1 .. codes) \cup {None}]
         /\ worker \in [Workers -> WorkerRows(codes)]
         /\ \A w \in Workers : Busy(w) => worker[w].job \in Held /\ worker[w].job \in 1 .. codes
         /\ \A v, w \in Workers : Busy(v) /\ worker[v].job = worker[w].job => v = w
         /\ tries \in [Codes -> 0 .. Attempts] /\ stalls \in [Codes -> 0 .. MaxStalls + 1]
         /\ mailed \in [Codes -> Nat]
<1>1. /\ codes \in Nat /\ codes <= MaxCodes /\ 1 .. codes \subseteq Codes
      /\ Codes \subseteq Nat /\ None \notin Codes
  BY MailAssumption DEF MailInv, TypeOK, Codes
<1>2. worker \in [Workers -> WorkerRows(codes)]
  BY DEF MailInv, TypeOK, WorkerRows
<1>3. /\ \A w \in Workers : worker[w].job \in (1 .. codes) \cup {None}
      /\ Held \subseteq 1 .. codes
      /\ \A w \in Workers : Busy(w) => worker[w].job \in Held /\ worker[w].job \in 1 .. codes
  BY <1>2 DEF WorkerRows, Held, Busy
<1>4. Owed \subseteq 1 .. codes
  BY DEF MailInv, TypeOK, Owed
<1>5. Waiting = Elems(wait)
  BY DEF Waiting, Elems
<1>6. Jobs \subseteq 1 .. codes /\ Waiting \subseteq 1 .. codes
  BY <1>3 DEF MailInv, TypeOK, Places, Jobs
<1>7. Owed \cap Jobs = {}
  <2> SUFFICES ASSUME NEW c \in Owed, c \in Jobs PROVE FALSE
    OBVIOUS
  <2>1. told[c] = "nothing" /\ Queued(c)
    BY <1>1, <1>4 DEF MailInv, Places
  <2> QED
    BY <2>1 DEF Queued, Queueing
<1>8. \A v, w \in Workers : Busy(v) /\ worker[v].job = worker[w].job => v = w
  BY DEF MailInv, TypeOK
<1> QED
  BY <1>1, <1>2, <1>3, <1>4, <1>5, <1>6, <1>7, <1>8 DEF MailInv, TypeOK, Places

\* A worker lets go of its job.
LEMMA ReleaseEffect ==
  ASSUME MailInv, NEW w \in Workers, Busy(w), Release(w), codes' = codes
  PROVE  /\ worker[w].job \in 1 .. codes /\ worker[w].job \in Held
         /\ worker' \in [Workers -> WorkerRows(codes)]
         /\ worker'[w] = Free /\ \A v \in Workers : v # w => worker'[v] = worker[v]
         /\ Held' = Held \ {worker[w].job}
         /\ \A v, u \in Workers : worker'[v].job = worker'[u].job => v = u \/ ~Busy(v)'
<1>1. /\ worker[w].job \in 1 .. codes /\ worker[w].job \in Held
      /\ \A v, u \in Workers : Busy(v) /\ worker[v].job = worker[u].job => v = u
      /\ worker \in [Workers -> WorkerRows(codes)]
  BY Facts
<1>2. Free \in WorkerRows(codes) /\ Free.job = None
  BY DEF Free, WorkerRows
<1>3. /\ worker' \in [Workers -> WorkerRows(codes)]
      /\ worker'[w] = Free /\ \A v \in Workers : v # w => worker'[v] = worker[v]
  BY <1>1, <1>2 DEF Release
<1>4. Held' = Held \ {worker[w].job}
  BY <1>1, <1>2, <1>3 DEF Held, Busy
<1>5. \A v, u \in Workers : worker'[v].job = worker'[u].job => v = u \/ ~Busy(v)'
  BY <1>1, <1>2, <1>3 DEF Busy
<1> QED
  BY <1>1, <1>3, <1>4, <1>5

\* A request is answered.
LEMMA AnswerEffect ==
  ASSUME MailInv, NEW h \in Handlers, handler[h] # None,
         handler' = [handler EXCEPT ![h] = None], codes' = codes
  PROVE  /\ handler[h] \in 1 .. codes /\ handler[h] \in Owed
         /\ handler' \in [Handlers -> (1 .. codes) \cup {None}]
         /\ Owed' = Owed \ {handler[h]}
         /\ \A g, k \in Handlers : handler'[g] = handler'[k] /\ handler'[g] # None => g = k
<1>1. /\ handler \in [Handlers -> (1 .. codes) \cup {None}]
      /\ \A g, k \in Handlers : handler[g] = handler[k] /\ handler[g] # None => g = k
  BY Facts DEF MailInv, Places
<1>2. handler'[h] = None /\ \A g \in Handlers : g # h => handler'[g] = handler[g]
  BY <1>1
<1>3. Owed' = Owed \ {handler[h]}
  BY <1>1, <1>2 DEF Owed
<1> QED
  BY <1>1, <1>2, <1>3 DEF Owed


\* A worker lets go of its job x, which is done with or held up: it is put back or delayed,
\* after a failure, or dropped.
Releases(w, x) ==
  /\ Busy(w) /\ Release(w) /\ x = worker[w].job
  /\ UNCHANGED <<codes, handler, told, lost, overtaken>>
  /\ \/ wait' = wait /\ delayed' \in {delayed, delayed \cup {x}}
     \/ wait' = <<x>> \o wait /\ delayed' = delayed
  /\ \A c \in Codes : c # x =>
       /\ tries'[c] = tries[c] /\ stalls'[c] = stalls[c] /\ mailed'[c] = mailed[c]
  /\ tries' \in [Codes -> 0 .. Attempts] /\ stalls' \in [Codes -> 0 .. MaxStalls + 1]
  /\ mailed' \in [Codes -> Nat] /\ swallowed' \subseteq Codes
  /\ wait' # wait => stalls'[x] > 0 /\ tries'[x] < Attempts /\ stalls'[x] <= MaxStalls
  /\ delayed' # delayed => tries'[x] > 0 /\ tries'[x] < Attempts /\ stalls'[x] <= MaxStalls

\* What a worker lets go of was its own job, and leaves every other job where it was.
LEMMA ReleaseStep ==
  ASSUME MailInv, NEW w \in Workers, NEW x, Releases(w, x)
  PROVE  /\ TypeOK' /\ Places' /\ InOrder'
         /\ x \in 1 .. codes /\ x \in Held /\ x \in Codes
         /\ Jobs \ {x} \subseteq Jobs' /\ Jobs' \subseteq Jobs /\ Owed' = Owed
         /\ wait' # wait \/ x \in delayed' => x \in Jobs'
         /\ wait' = wait /\ delayed' = delayed => x \notin Jobs'
         /\ \A v \in Workers : Busy(v)' => v # w /\ worker'[v] = worker[v]
         /\ Busy(w) /\ \A v \in Workers : worker[v].job = x => v = w
<1>1. /\ x \in 1 .. codes /\ x \in Held /\ x \in Codes /\ Jobs \subseteq Codes
      /\ worker' \in [Workers -> WorkerRows(codes)] /\ Held' = Held \ {x}
      /\ \A v, u \in Workers : worker'[v].job = worker'[u].job => v = u \/ ~Busy(v)'
      /\ UNCHANGED <<codes, handler, told, lost, overtaken>>
      /\ Busy(w) /\ \A v \in Workers : worker[v].job = x => v = w
      /\ \A v \in Workers : Busy(v)' => v # w /\ worker'[v] = worker[v]
  BY Facts, ReleaseEffect DEF Releases, Busy, Free
<1>2. /\ x \notin Waiting /\ x \notin delayed /\ Waiting = Elems(wait)
      /\ wait \in Seq(Codes) /\ Distinct(wait)
      /\ Waiting \subseteq 1 .. codes /\ delayed \subseteq 1 .. codes /\ Owed \cap Jobs = {}
  BY <1>1, Facts DEF MailInv, TypeOK, Places
<1>3. /\ wait' \in Seq(Codes) /\ Distinct(wait') /\ Waiting' = Elems(wait')
      /\ \A c, d : d # x /\ Before(wait, c, d) => Before(wait', c, d)
  <2>1. Waiting' = Elems(wait')
    BY DEF Waiting, Elems
  <2>2. CASE wait' = wait
    BY <1>2, <2>1, <2>2
  <2>3. CASE wait' = <<x>> \o wait
    <3>1. /\ <<x>> \o wait \in Seq(Codes) /\ Distinct(<<x>> \o wait)
          /\ \A c, d : d # x /\ Before(wait, c, d) => Before(<<x>> \o wait, c, d)
      BY <1>1, <1>2, PutBackEffect
    <3> QED
      BY <2>1, <2>3, <3>1
  <2> QED
    BY <2>2, <2>3 DEF Releases
<1>4. \/ Waiting' = Waiting /\ delayed' = delayed /\ wait' = wait
      \/ Waiting' = Waiting /\ delayed' = delayed \cup {x} /\ wait' = wait
      \/ Waiting' = Waiting \cup {x} /\ delayed' = delayed /\ wait' # wait
  <2>1. CASE wait' = wait
    BY <1>2, <1>3, <2>1 DEF Releases
  <2>2. CASE wait' = <<x>> \o wait /\ delayed' = delayed
    <3>1. Elems(wait') = Elems(wait) \cup {x}
      BY <1>1, <1>2, <2>2, PutBackEffect
    <3> QED
      BY <1>2, <1>3, <2>2, <3>1
  <2> QED
    BY <2>1, <2>2 DEF Releases
<1>5. /\ Owed' = Owed /\ Jobs' = Waiting' \cup delayed' \cup Held'
      /\ Jobs = Waiting \cup delayed \cup Held
  BY <1>1 DEF Owed, Jobs
<1>6. /\ Jobs \ {x} \subseteq Jobs' /\ Jobs' \subseteq Jobs
      /\ wait' # wait \/ x \in delayed' => x \in Jobs'
      /\ wait' = wait /\ delayed' = delayed => x \notin Jobs'
      /\ x \in Jobs' => /\ tries'[x] < Attempts /\ stalls'[x] <= MaxStalls
                        /\ tries'[x] > 0 \/ stalls'[x] > 0
  BY <1>1, <1>2, <1>4, <1>5 DEF Releases
<1>7. TypeOK'
  <2>1. Len(wait') = Cardinality(Waiting')
    BY <1>3, ListLength
  <2>2. Waiting' \cap delayed' = {} /\ (Waiting' \cup delayed') \cap (Held' \cup Owed') = {}
    <3>1. Waiting \cap delayed = {} /\ (Waiting \cup delayed) \cap (Held \cup Owed) = {}
      BY DEF MailInv, TypeOK
    <3>2. x \notin Owed
      BY <1>1, <1>2, <1>5
    <3> QED
      BY <1>1, <1>2, <1>4, <1>5, <3>1, <3>2
  <2>3. \A c \in Jobs' : tries'[c] < Attempts /\ stalls'[c] <= MaxStalls
    <3>1. \A c \in Jobs : tries[c] < Attempts /\ stalls[c] <= MaxStalls
      BY DEF MailInv, TypeOK
    <3> QED
      BY <1>1, <1>6, <3>1 DEF Releases
  <2>4. Waiting' \subseteq 1 .. codes
    BY <1>1, <1>2, <1>4
  <2>5. codes' \in 0 .. MaxCodes /\ handler' \in [Handlers -> (1 .. codes') \cup {None}]
    BY <1>1 DEF MailInv, TypeOK
  <2>6. worker' \in [Workers -> [job : (1 .. codes') \cup {None}, sent : BOOLEAN]]
    BY <1>1 DEF WorkerRows
  <2>7. tries' \in [Codes -> 0 .. Attempts] /\ stalls' \in [Codes -> 0 .. MaxStalls + 1]
    BY DEF Releases
  <2> QED
    BY <1>1, <2>1, <2>2, <2>3, <2>4, <2>5, <2>6, <2>7 DEF TypeOK
<1>8. Places'
  <2>1. \A g, h \in Handlers : handler'[g] = handler'[h] /\ handler'[g] # None => g = h
    BY <1>1 DEF MailInv, Places
  <2>2. /\ \A c \in Codes : c > codes' \/ c \in Owed' => told'[c] = "nothing"
        /\ \A c \in Jobs' : Queued(c)'
    BY <1>1, <1>5, <1>6 DEF MailInv, Places, Queued
  <2>3. \A c \in delayed' : tries'[c] > 0
    <3>1. \A c \in delayed : tries[c] > 0 /\ c \in Codes
      BY <1>1, <1>5 DEF MailInv, Places
    <3> QED
      BY <1>2, <1>4, <3>1 DEF Releases
  <2>4. told' \in [Codes -> {"nothing", "failed"} \cup Queueing]
        /\ overtaken' \subseteq Codes
    BY <1>1 DEF MailInv, Places
  <2>5. delayed' \subseteq 1 .. codes'
    BY <1>1, <1>2, <1>4
  <2>6. \A c \in Codes : ~Queued(c)' => tries'[c] = 0 /\ stalls'[c] = 0
    <3>1. Queued(x)
      BY <1>1, <1>5 DEF MailInv, Places
    <3> QED
      BY <1>1, <3>1 DEF MailInv, Places, Releases, Queued
  <2> QED
    BY <1>3, <2>1, <2>2, <2>3, <2>4, <2>5, <2>6 DEF Places, Releases
<1>9. InOrder'
  <2> SUFFICES ASSUME NEW c \in Codes, NEW d \in Codes, c < d, Queued(d)', c \in Jobs',
                      tries'[c] = 0, stalls'[c] = 0, c \notin overtaken'
               PROVE  mailed'[d] = 0 /\ Comes(c, d)'
    BY DEF InOrder
  <2>1. c # x
    BY <1>6
  <2>2. Queued(d) /\ c \in Jobs /\ tries[c] = 0 /\ stalls[c] = 0 /\ c \notin overtaken
    BY <1>1, <1>6, <2>1 DEF Releases, Queued
  <2>3. mailed[d] = 0 /\ Comes(c, d)
    BY <2>2 DEF MailInv, InOrder
  <2>4. d # x
    BY <1>1, <1>2, <1>5, <2>3 DEF Comes
  <2> QED
    BY <1>1, <1>3, <1>4, <1>6, <2>3, <2>4 DEF Releases, Comes
<1> QED
  BY <1>1, <1>5, <1>6, <1>7, <1>8, <1>9

\* Complete, Swallow, Throw and WorkerDies: what ends the work on a job keeps all of it.
LEMMA WorkEnds ==
  ASSUME MailInv, NEW w \in Workers,
         Complete(w) \/ Swallow(w) \/ Throw(w) \/ WorkerDies(w)
  PROVE  MailInv'
<1> DEFINE x == worker[w].job
<1>1. /\ x \in 1 .. codes /\ x \in Codes /\ x \in Held /\ x \in Jobs
      /\ tries[x] \in 0 .. Attempts /\ stalls[x] \in 0 .. MaxStalls + 1 /\ mailed[x] \in Nat
      /\ tries[x] < Attempts /\ stalls[x] <= MaxStalls
      /\ tries \in [Codes -> 0 .. Attempts] /\ stalls \in [Codes -> 0 .. MaxStalls + 1]
      /\ mailed \in [Codes -> Nat] /\ Attempts \in Nat \ {0} /\ MaxStalls \in Nat
  <2>1. Busy(w)
    BY DEF Complete, Swallow, Throw, WorkerDies
  <2>2. x \in 1 .. codes /\ x \in Codes /\ x \in Held /\ x \in Jobs
    BY <2>1, Facts DEF Jobs
  <2> QED
    BY <2>2, Facts, MailAssumption DEF MailInv, TypeOK
<1>2. swallowed \subseteq Codes
  BY DEF MailInv, Places
<1>3. Releases(w, x) /\ swallowed \subseteq swallowed'
      /\ (\A c \in Codes : mailed[c] <= mailed'[c] /\ tries[c] <= tries'[c] /\ stalls[c] <= stalls'[c])
  <2>1. CASE Complete(w)
    BY <1>1, <1>2, <2>1 DEF Complete, Releases, history
  <2>2. CASE Swallow(w)
    BY <1>1, <1>2, <2>2 DEF Swallow, Releases
  <2>3. CASE Throw(w)
    BY <1>1, <1>2, <2>3 DEF Throw, Releases, history
  <2>4. CASE WorkerDies(w)
    <3>1. /\ Busy(w) /\ Release(w) /\ UNCHANGED <<codes, handler, delayed, tries, history>>
          /\ stalls' = [stalls EXCEPT ![x] = @ + 1]
          /\ wait' = IF stalls[x] < MaxStalls /\ x \notin lost THEN <<x>> \o wait ELSE wait
      BY <2>4 DEF WorkerDies
    <3>2. /\ stalls' \in [Codes -> 0 .. MaxStalls + 1] /\ stalls'[x] = stalls[x] + 1
          /\ \A c \in Codes : c # x => stalls'[c] = stalls[c]
      BY <1>1, <3>1
    <3>3. /\ wait' # wait => stalls'[x] > 0 /\ tries'[x] < Attempts /\ stalls'[x] <= MaxStalls
          /\ (wait' = wait /\ delayed' \in {delayed, delayed \cup {x}})
               \/ (wait' = <<x>> \o wait /\ delayed' = delayed)
      <4>1. wait' # wait => stalls[x] < MaxStalls
        BY <3>1
      <4>2. wait' = wait \/ wait' = <<x>> \o wait
        BY <3>1
      <4>3. tries' = tries /\ delayed' = delayed
        BY <3>1
      <4> HIDE DEF x
      <4> QED
        BY <1>1, <3>2, <4>1, <4>2, <4>3
    <3>4. /\ \A c \in Codes : stalls[c] <= stalls'[c] /\ mailed[c] <= mailed'[c] /\ tries[c] <= tries'[c]
          /\ x = worker[w].job
      BY <1>1, <3>1, <3>2 DEF history
    <3> HIDE DEF x
    <3> QED
      BY <1>1, <1>2, <3>1, <3>2, <3>3, <3>4 DEF Releases, history
  <2> QED
    BY <2>1, <2>2, <2>3, <2>4
<1>4. /\ TypeOK' /\ Places' /\ InOrder' /\ UNCHANGED codes /\ told' = told /\ lost' = lost /\ Owed' = Owed
      /\ Jobs \ {x} \subseteq Jobs' /\ Jobs' \subseteq Jobs
      /\ wait' # wait \/ x \in delayed' => x \in Jobs'
      /\ \A v \in Workers : Busy(v)' => v # w /\ worker'[v] = worker[v]
      /\ \A v \in Workers : worker[v].job = x => v = w
  <2>1. UNCHANGED codes /\ told' = told /\ lost' = lost
    BY <1>3 DEF Releases
  <2> HIDE DEF x
  <2> QED
    BY <1>3, <2>1, ReleaseStep
<1>5. tries'[x] = Attempts \/ stalls'[x] > MaxStalls \/ x \in swallowed' \/ mailed'[x] > 0
        \/ x \in Jobs' \/ x \in lost
  <2>1. CASE Complete(w)
    <3>1. mailed[x] > 0 /\ mailed' = mailed
      BY <2>1 DEF Complete, MailInv, Mails, history
    <3> QED
      BY <3>1
  <2>2. CASE Swallow(w)
    BY <2>2 DEF Swallow
  <2>3. CASE Throw(w)
    BY <1>1, <1>4, <2>3 DEF Throw
  <2>4. CASE WorkerDies(w)
    <3>1. wait \in Seq(Codes)
      BY DEF MailInv, Places
    <3>2. <<x>> \o wait # wait
      BY <1>1, <3>1
    <3> QED
      BY <1>1, <1>4, <2>4, <3>2 DEF WorkerDies
  <2> QED
    BY <2>1, <2>2, <2>3, <2>4
<1>6. LossesExplained'
  <2> SUFFICES ASSUME NEW c \in 1 .. codes
               PROVE  \/ c \in Owed' \cup Jobs'
                      \/ mailed'[c] > 0 \/ told'[c] = "failed"
                      \/ (told'[c] = "nothing" /\ c \notin Owed') \/ c \in lost'
                      \/ tries'[c] = Attempts \/ stalls'[c] > MaxStalls \/ c \in swallowed'
    BY <1>4 DEF LossesExplained
  <2>1. CASE c = x
    BY <1>4, <1>5, <2>1
  <2>2. CASE c # x
    <3>1. c \in Codes /\ tries'[c] = tries[c] /\ stalls'[c] = stalls[c] /\ mailed'[c] = mailed[c]
      BY <1>3, <2>2, Facts DEF Releases
    <3>2. \/ c \in Owed \cup Jobs
          \/ mailed[c] > 0 \/ told[c] = "failed"
          \/ (told[c] = "nothing" /\ c \notin Owed) \/ c \in lost
          \/ tries[c] = Attempts \/ stalls[c] > MaxStalls \/ c \in swallowed
      BY DEF MailInv, LossesExplained
    <3> QED
      BY <1>3, <1>4, <2>2, <3>1, <3>2
  <2> QED
    BY <2>1, <2>2
<1>7. mailed'[x] <= 1 + stalls'[x] /\ (x \in Jobs' => mailed'[x] <= stalls'[x])
  <2>1. /\ mailed[x] <= 1 + stalls[x]
        /\ ~worker[w].sent => mailed[x] <= stalls[x]
    BY <1>1, <1>4 DEF MailInv, Mails, OneMailPerCode
  <2>2. CASE Complete(w)
    <3>1. wait' = wait /\ delayed' = delayed /\ mailed' = mailed /\ stalls' = stalls
      BY <2>2 DEF Complete, history
    <3>2. x \notin Jobs'
      BY <1>3, <3>1, ReleaseStep
    <3> QED
      BY <2>1, <3>1, <3>2
  <2>3. CASE Swallow(w)
    <3>1. /\ wait' = wait /\ delayed' = delayed /\ stalls' = stalls /\ ~worker[w].sent
          /\ mailed'[x] <= mailed[x] + 1 /\ mailed'[x] \in Nat
      BY <1>1, <2>3 DEF Swallow
    <3>2. x \notin Jobs'
      BY <1>3, <3>1, ReleaseStep
    <3> QED
      BY <1>1, <2>1, <3>1, <3>2
  <2>4. CASE Throw(w)
    BY <1>1, <2>1, <2>4 DEF Throw, history
  <2>5. CASE WorkerDies(w)
    BY <1>1, <2>1, <2>5 DEF WorkerDies, history
  <2> QED
    BY <2>2, <2>3, <2>4, <2>5
<1>8. Mails'
  <2>1. \A c \in Codes : mailed'[c] <= 1 + stalls'[c]
    BY <1>3, <1>7 DEF MailInv, Mails, OneMailPerCode, Releases
  <2>2. \A c \in Codes : ~Queued(c)' => mailed'[c] = 0
    <3>1. Queued(x)
      BY <1>1 DEF MailInv, Places
    <3> QED
      BY <1>3, <1>4, <3>1 DEF MailInv, Mails, Releases, Queued
  <2>3. \A v \in Workers : Busy(v)' /\ worker'[v].sent => mailed'[worker'[v].job] > 0
    <3> SUFFICES ASSUME NEW v \in Workers, Busy(v)', worker'[v].sent
                 PROVE  mailed'[worker'[v].job] > 0
      OBVIOUS
    <3>1. worker'[v] = worker[v] /\ v # w /\ Busy(v)
      BY <1>4 DEF Busy
    <3>2. mailed[worker[v].job] > 0 /\ worker[v].job # x /\ worker[v].job \in Codes
      BY <1>4, <3>1, Facts DEF MailInv, Mails
    <3> QED
      BY <1>3, <3>1, <3>2 DEF Releases
  <2>4. ASSUME NEW c \in Jobs', \A v \in Workers : worker'[v].job = c => ~worker'[v].sent
        PROVE  mailed'[c] <= stalls'[c]
    <3>1. CASE c = x
      BY <1>7, <2>4, <3>1
    <3>2. CASE c # x
      <4>1. \A v \in Workers : worker[v].job = c => ~worker[v].sent
        <5> SUFFICES ASSUME NEW v \in Workers, worker[v].job = c PROVE ~worker[v].sent
          OBVIOUS
        <5>1. v # w
          BY <3>2
        <5>2. worker'[v] = worker[v]
          BY <1>3, <5>1, Facts DEF Releases, Release
        <5> QED
          BY <2>4, <5>2
      <4>2. c \in Jobs /\ c \in Codes
        BY <1>4, <2>4, Facts
      <4>3. mailed[c] <= stalls[c]
        BY <4>1, <4>2 DEF MailInv, Mails
      <4> QED
        BY <1>3, <3>2, <4>2, <4>3 DEF Releases
    <3> QED
      BY <3>1, <3>2
  <2> QED
    BY <2>1, <2>2, <2>3, <2>4 DEF Mails, OneMailPerCode
<1> QED
  BY <1>4, <1>6, <1>8 DEF MailInv


-----------------------------------------------------------------------------
(* The other steps. *)

\* A new code is owed by its request.
LEMMA CommitStep ==
  ASSUME MailInv, NEW h \in Handlers, Commit(h)
  PROVE  MailInv'
<1>1. /\ handler[h] = None /\ codes < MaxCodes /\ codes' = codes + 1
      /\ handler' = [handler EXCEPT ![h] = codes + 1]
      /\ UNCHANGED <<jobs, history>>
  BY DEF Commit
<1>2. /\ codes \in Nat /\ handler \in [Handlers -> (1 .. codes) \cup {None}]
      /\ Owed \subseteq 1 .. codes /\ Jobs \subseteq 1 .. codes /\ Waiting \subseteq 1 .. codes
      /\ 1 .. codes \subseteq 1 .. codes + 1 /\ codes + 1 \notin 1 .. codes /\ codes + 1 # None
      /\ 1 .. codes + 1 = (1 .. codes) \cup {codes + 1} /\ Codes \subseteq Nat
      /\ worker \in [Workers -> WorkerRows(codes)] /\ MaxCodes \in Nat
  <2>1. /\ codes \in Nat /\ handler \in [Handlers -> (1 .. codes) \cup {None}]
        /\ Owed \subseteq 1 .. codes /\ Jobs \subseteq 1 .. codes /\ Waiting \subseteq 1 .. codes
        /\ Codes \subseteq Nat /\ worker \in [Workers -> WorkerRows(codes)]
    BY Facts
  <2>2. MaxCodes \in Nat /\ codes + 1 # None
    BY <2>1, MailAssumption
  <2>3. /\ 1 .. codes \subseteq 1 .. codes + 1 /\ codes + 1 \notin 1 .. codes
        /\ 1 .. codes + 1 = (1 .. codes) \cup {codes + 1}
    <3>1. codes \in Nat
      BY <2>1
    <3> QED
      BY <3>1
  <2> QED
    BY <2>1, <2>2, <2>3
<1>3. /\ Waiting' = Waiting /\ Held' = Held /\ Jobs' = Jobs /\ delayed' = delayed
      /\ wait' = wait /\ tries' = tries /\ stalls' = stalls /\ worker' = worker
      /\ told' = told /\ mailed' = mailed /\ swallowed' = swallowed
      /\ lost' = lost /\ overtaken' = overtaken
  BY <1>1 DEF jobs, history, Waiting, Held, Jobs
<1>4. Owed' = Owed \cup {codes + 1}
  BY <1>1, <1>2 DEF Owed
<1>5. TypeOK'
  <2>1. worker' \in [Workers -> WorkerRows(codes')]
    BY <1>1, <1>2, <1>3 DEF WorkerRows
  <2>2. handler' \in [Handlers -> (1 .. codes') \cup {None}] /\ codes' \in 0 .. MaxCodes
    BY <1>1, <1>2
  <2>3. (Waiting' \cup delayed') \cap (Held' \cup Owed') = {} /\ Waiting' \subseteq 1 .. codes'
    BY <1>1, <1>2, <1>3, <1>4 DEF MailInv, TypeOK, Jobs
  <2> QED
    BY <1>3, <2>1, <2>2, <2>3 DEF MailInv, TypeOK, WorkerRows, Busy
<1>6. Places'
  <2>1. \A g, k \in Handlers : handler'[g] = handler'[k] /\ handler'[g] # None => g = k
    <3>1. /\ handler'[h] = codes + 1
          /\ \A g \in Handlers : g # h => handler'[g] = handler[g] /\ handler[g] # codes + 1
      BY <1>1, <1>2
    <3>2. \A g, k \in Handlers : handler[g] = handler[k] /\ handler[g] # None => g = k
      BY DEF MailInv, Places
    <3> QED
      BY <3>1, <3>2
  <2>2. \A c \in Codes : c > codes' \/ c \in Owed' => told'[c] = "nothing"
    <3>1. \A c \in Codes : c > codes' \/ c \in Owed' => c > codes \/ c \in Owed
      BY <1>1, <1>2, <1>4
    <3>2. \A c \in Codes : c > codes \/ c \in Owed => told[c] = "nothing"
      BY DEF MailInv, Places
    <3> QED
      BY <1>3, <3>1, <3>2
  <2> QED
    BY <1>1, <1>2, <1>3, <2>1, <2>2 DEF MailInv, Places, Queued
<1>7. LossesExplained'
  <2>1. \A c \in 1 .. codes' : c \in 1 .. codes \/ c \in Owed'
    BY <1>1, <1>2, <1>4
  <2> QED
    BY <1>3, <1>4, <2>1 DEF MailInv, LossesExplained
<1>8. Mails' /\ InOrder'
  BY <1>3 DEF MailInv, Mails, InOrder, Comes, OneMailPerCode, Queued, Busy
<1> QED
  BY <1>5, <1>6, <1>7, <1>8 DEF MailInv

\* The caller learns that there will be no mail.
LEMMA AddFailsStep ==
  ASSUME MailInv, NEW h \in Handlers, NEW c, c = handler[h], AddFails(h)
  PROVE  MailInv'
<1>1. /\ c # None /\ told' = [told EXCEPT ![c] = "failed"]
      /\ handler' = [handler EXCEPT ![h] = None]
      /\ UNCHANGED <<codes, jobs, mailed, swallowed, lost, overtaken>>
  BY DEF AddFails
<1>2. /\ c \in 1 .. codes /\ c \in Owed /\ c \in Codes /\ c \notin Jobs
      /\ handler' \in [Handlers -> (1 .. codes) \cup {None}]
      /\ Owed' = Owed \ {c}
      /\ \A g, k \in Handlers : handler'[g] = handler'[k] /\ handler'[g] # None => g = k
  BY <1>1, AnswerEffect, Facts
<1>3. /\ Waiting' = Waiting /\ Held' = Held /\ Jobs' = Jobs /\ delayed' = delayed
      /\ wait' = wait /\ tries' = tries /\ stalls' = stalls /\ worker' = worker
      /\ codes' = codes /\ mailed' = mailed /\ swallowed' = swallowed
      /\ lost' = lost /\ overtaken' = overtaken
  BY <1>1 DEF jobs, Waiting, Held, Jobs
<1>4. /\ told' \in [Codes -> {"nothing", "failed"} \cup Queueing]
      /\ told'[c] = "failed" /\ \A d \in Codes : d # c => told'[d] = told[d]
      /\ told[c] = "nothing" /\ Codes \subseteq Nat /\ codes \in Nat
  BY <1>1, <1>2, Facts DEF MailInv, Places
<1>5. TypeOK'
  BY <1>2, <1>3 DEF MailInv, TypeOK, Busy
<1>6. Places'
  <2>1. \A d \in Codes : d > codes' \/ d \in Owed' => told'[d] = "nothing"
    <3>1. ASSUME NEW d \in Codes, d > codes' \/ d \in Owed'
          PROVE  (d > codes \/ d \in Owed) /\ d # c
      <4>1. c \in Nat /\ c <= codes /\ d \in Nat
        <5>1. c \in 1 .. codes
          BY <1>2
        <5>2. codes \in Nat /\ Codes \subseteq Nat
          BY <1>4
        <5>3. c \in Nat
          BY <5>1, <5>2
        <5>4. c <= codes
          BY <5>1, <5>2
        <5>5. d \in Nat
          BY <5>2
        <5> QED
          BY <5>3, <5>4, <5>5
      <4>2. codes' = codes /\ Owed' = Owed \ {c} /\ codes \in Nat
        BY <1>2, <1>3, <1>4
      <4> QED
        BY <3>1, <4>1, <4>2
    <3>2. \A d \in Codes : d > codes \/ d \in Owed => told[d] = "nothing"
      BY DEF MailInv, Places
    <3> QED
      BY <1>4, <3>1, <3>2
  <2>2. \A d \in Jobs' : Queued(d)'
    <3>1. Jobs \subseteq Codes
      BY Facts
    <3> QED
      BY <1>2, <1>3, <1>4, <3>1 DEF MailInv, Places, Queued
  <2>3. \A d \in Codes : ~Queued(d)' => tries'[d] = 0 /\ stalls'[d] = 0
    BY <1>3, <1>4 DEF MailInv, Places, Queued, Queueing
  <2> QED
    BY <1>2, <1>3, <1>4, <2>1, <2>2, <2>3 DEF MailInv, Places
<1>7. LossesExplained'
  <2>1. 1 .. codes \subseteq Codes
    BY Facts
  <2> QED
    BY <1>2, <1>3, <1>4, <2>1 DEF MailInv, LossesExplained
<1>8. Mails'
  BY <1>3, <1>4 DEF MailInv, Mails, OneMailPerCode, Queued, Queueing, Busy
<1>9. InOrder'
  BY <1>3, <1>4 DEF MailInv, InOrder, Comes, Queued, Queueing
<1> QED
  BY <1>5, <1>6, <1>7, <1>8, <1>9 DEF MailInv

\* Nobody learns anything of a request whose process died.
LEMMA HandlerDiesStep ==
  ASSUME MailInv, NEW h \in Handlers, NEW c, c = handler[h], HandlerDies(h)
  PROVE  MailInv'
<1>1. /\ c # None /\ handler' = [handler EXCEPT ![h] = None]
      /\ UNCHANGED <<codes, jobs, history>>
  BY DEF HandlerDies
<1>2. /\ c \in 1 .. codes /\ c \in Owed /\ c \in Codes
      /\ handler' \in [Handlers -> (1 .. codes) \cup {None}]
      /\ Owed' = Owed \ {c}
      /\ \A g, k \in Handlers : handler'[g] = handler'[k] /\ handler'[g] # None => g = k
  BY <1>1, AnswerEffect, Facts DEF history
<1>3. /\ Waiting' = Waiting /\ Held' = Held /\ Jobs' = Jobs /\ delayed' = delayed
      /\ wait' = wait /\ tries' = tries /\ stalls' = stalls /\ worker' = worker
      /\ codes' = codes /\ mailed' = mailed /\ swallowed' = swallowed
      /\ lost' = lost /\ overtaken' = overtaken /\ told' = told
  BY <1>1 DEF jobs, history, Waiting, Held, Jobs
<1>4. told[c] = "nothing"
  BY <1>2 DEF MailInv, Places
<1>5. TypeOK'
  BY <1>2, <1>3 DEF MailInv, TypeOK, Busy
<1>6. Places'
  BY <1>2, <1>3 DEF MailInv, Places, Queued
<1>7. LossesExplained'
  BY <1>2, <1>3, <1>4 DEF MailInv, LossesExplained
<1>8. Mails' /\ InOrder'
  BY <1>3 DEF MailInv, Mails, InOrder, Comes, OneMailPerCode, Queued, Busy
<1> QED
  BY <1>5, <1>6, <1>7, <1>8 DEF MailInv

\* The queue is lost: what is left of it are the jobs that the workers have.
LEMMA LoseQueueStep ==
  ASSUME MailInv, LoseQueue
  PROVE  MailInv'
<1>1. /\ wait' = <<>> /\ delayed' = {} /\ lost' = lost \cup Jobs
      /\ UNCHANGED <<codes, handler, worker, tries, stalls>>
      /\ UNCHANGED <<told, mailed, swallowed, overtaken>>
  BY DEF LoseQueue
<1>2. /\ Waiting' = {} /\ Held' = Held /\ Owed' = Owed /\ Jobs' = Held /\ Jobs' \subseteq Jobs
  BY <1>1 DEF Waiting, Held, Owed, Jobs
<1>3. TypeOK'
  <2>1. Len(wait') = Cardinality(Waiting')
    BY <1>1, <1>2, FS_EmptySet
  <2> QED
    BY <1>1, <1>2, <2>1 DEF MailInv, TypeOK, Busy
<1>4. Places'
  <2>1. wait' \in Seq(Codes) /\ Distinct(wait')
    BY <1>1 DEF Distinct
  <2> QED
    BY <1>1, <1>2, <2>1 DEF MailInv, Places, Queued
<1>5. LossesExplained'
  BY <1>1, <1>2 DEF MailInv, LossesExplained
<1>6. Mails'
  BY <1>1, <1>2 DEF MailInv, Mails, OneMailPerCode, Queued, Busy
<1>7. InOrder'
  <2> SUFFICES ASSUME NEW c \in Codes, NEW d \in Codes, c < d, Queued(d)', c \in Jobs',
                      tries'[c] = 0, stalls'[c] = 0, c \notin overtaken'
               PROVE  mailed'[d] = 0 /\ Comes(c, d)'
    BY DEF InOrder
  <2>1. mailed[d] = 0 /\ Comes(c, d)
    BY <1>1, <1>2 DEF MailInv, InOrder, Queued
  <2>2. Waiting \cap Held = {} /\ Waiting \subseteq Jobs
    BY DEF MailInv, TypeOK, Jobs
  <2> QED
    BY <1>1, <1>2, <2>1, <2>2 DEF Comes
<1> QED
  BY <1>3, <1>4, <1>5, <1>6, <1>7 DEF MailInv

\* The job goes to the end of the list, behind every older one that nothing has held up.
LEMMA sendEmailJobStep ==
  ASSUME MailInv, NEW h \in Handlers, NEW c, c = handler[h], sendEmailJob(h)
  PROVE  MailInv'
<1>1. /\ c # None /\ wait' = Append(wait, c)
      /\ \E answer \in Queueing : told' = [told EXCEPT ![c] = answer]
      /\ overtaken' = IF Newer(c) # {} THEN overtaken \cup {c} ELSE overtaken
      /\ handler' = [handler EXCEPT ![h] = None]
      /\ UNCHANGED <<codes, delayed, worker, tries, stalls, mailed, swallowed, lost>>
  BY DEF sendEmailJob
<1>2. /\ c \in 1 .. codes /\ c \in Owed /\ c \in Codes /\ c \notin Jobs
      /\ handler' \in [Handlers -> (1 .. codes) \cup {None}]
      /\ Owed' = Owed \ {c}
      /\ \A g, k \in Handlers : handler'[g] = handler'[k] /\ handler'[g] # None => g = k
      /\ Codes \subseteq Nat /\ codes \in Nat /\ Jobs \subseteq Codes
  BY <1>1, AnswerEffect, Facts
<1>3. /\ told' \in [Codes -> {"nothing", "failed"} \cup Queueing]
      /\ told'[c] \in Queueing
      /\ \A d \in Codes : d # c => told'[d] = told[d]
      /\ told[c] = "nothing" /\ ~Queued(c)
  <2>1. told \in [Codes -> {"nothing", "failed"} \cup Queueing]
        /\ told[c] = "nothing"
    BY <1>2 DEF MailInv, Places
  <2>2. PICK answer \in Queueing : told' = [told EXCEPT ![c] = answer]
    BY <1>1
  <2>3. told'[c] = answer /\ \A d \in Codes : d # c => told'[d] = told[d]
    BY <1>2, <2>1, <2>2
  <2>4. told' \in [Codes -> {"nothing", "failed"} \cup Queueing]
    BY <1>2, <2>1, <2>2
  <2> QED
    BY <2>1, <2>3, <2>4 DEF Queued, Queueing
<1>4. /\ wait' \in Seq(Codes) /\ Distinct(wait') /\ Waiting' = Waiting \cup {c}
      /\ \A b, d : b # c /\ Before(wait, b, d) => Before(wait', b, d)
  <2>1. wait \in Seq(Codes) /\ Distinct(wait) /\ Waiting = Elems(wait) /\ c \notin Elems(wait)
    BY <1>2, Facts DEF MailInv, Places, Jobs
  <2>2. Waiting' = Elems(wait')
    BY DEF Waiting, Elems
  <2>3. /\ Append(wait, c) \in Seq(Codes) /\ Elems(Append(wait, c)) = Elems(wait) \cup {c}
        /\ Distinct(Append(wait, c))
        /\ \A b, d : b # c /\ Before(wait, b, d) => Before(Append(wait, c), b, d)
    BY <1>2, <2>1, AppendEffect
  <2> QED
    BY <1>1, <2>1, <2>2, <2>3
<1>5. /\ Held' = Held /\ delayed' = delayed /\ Jobs' = Jobs \cup {c}
  <2>1. worker' = worker /\ delayed' = delayed /\ Waiting' = Waiting \cup {c}
    BY <1>1, <1>4
  <2>2. Held' = Held
    BY <2>1 DEF Held
  <2> QED
    BY <2>1, <2>2 DEF Jobs
<1>6. TypeOK'
  <2>1. Len(wait') = Cardinality(Waiting')
    <3>1. Waiting' = Elems(wait')
      BY DEF Waiting, Elems
    <3> QED
      BY <1>4, <3>1, ListLength
  <2>2. Waiting' \subseteq 1 .. codes /\ Waiting' \cap delayed' = {}
        /\ (Waiting' \cup delayed') \cap (Held' \cup Owed') = {}
    <3>1. /\ Waiting \subseteq 1 .. codes /\ Waiting \cap delayed = {}
          /\ (Waiting \cup delayed) \cap (Held \cup Owed) = {}
      BY DEF MailInv, TypeOK
    <3>2. /\ Waiting' = Waiting \cup {c} /\ Held' = Held /\ delayed' = delayed
          /\ Owed' = Owed \ {c} /\ c \in 1 .. codes
          /\ c \notin Waiting /\ c \notin delayed /\ c \notin Held
      BY <1>2, <1>4, <1>5 DEF Jobs
    <3> QED
      BY <3>1, <3>2
  <2>3. \A d \in Jobs' : tries[d] < Attempts /\ stalls[d] <= MaxStalls
    <3>1. tries[c] = 0 /\ stalls[c] = 0
      BY <1>2, <1>3 DEF MailInv, Places
    <3>2. \A d \in Jobs : tries[d] < Attempts /\ stalls[d] <= MaxStalls
      BY DEF MailInv, TypeOK
    <3> QED
      BY <1>5, <3>1, <3>2, MailAssumption
  <2> QED
    BY <1>1, <1>2, <2>1, <2>2, <2>3 DEF MailInv, TypeOK, Busy
<1>7. Places'
  <2>1. \A d \in Codes : d > codes' \/ d \in Owed' => told'[d] = "nothing"
    <3>1. ASSUME NEW d \in Codes, d > codes' \/ d \in Owed'
          PROVE  (d > codes \/ d \in Owed) /\ d # c
      <4>1. c \in Nat /\ c <= codes /\ d \in Nat /\ codes \in Nat
        BY <1>2
      <4>2. codes' = codes /\ Owed' = Owed \ {c}
        BY <1>1, <1>2
      <4> QED
        BY <3>1, <4>1, <4>2
    <3>2. \A d \in Codes : d > codes \/ d \in Owed => told[d] = "nothing"
      BY DEF MailInv, Places
    <3> QED
      BY <1>3, <3>1, <3>2
  <2>2. \A d \in Jobs' : Queued(d)'
    <3>1. \A d \in Jobs : Queued(d) /\ d \in Codes /\ d # c
      BY <1>2 DEF MailInv, Places
    <3> QED
      BY <1>3, <1>5, <3>1 DEF Queued
  <2>3. /\ \A d \in Codes : ~Queued(d)' => tries'[d] = 0 /\ stalls'[d] = 0
        /\ \A d \in delayed' : tries'[d] > 0
    BY <1>1, <1>2, <1>3 DEF MailInv, Places, Queued
  <2>4. overtaken' \subseteq Codes
    BY <1>1, <1>2 DEF MailInv, Places
  <2> QED
    BY <1>1, <1>2, <1>3, <1>4, <2>1, <2>2, <2>3, <2>4 DEF MailInv, Places
<1>8. LossesExplained'
  <2>1. 1 .. codes \subseteq Codes
    BY Facts
  <2>2. \A d \in 1 .. codes : told[d] = "failed" => told'[d] = "failed"
    BY <1>3, <2>1
  <2> QED
    BY <1>1, <1>2, <1>5, <2>2 DEF MailInv, LossesExplained
<1>9. Mails'
  <2>1. mailed[c] = 0 /\ stalls[c] = 0
    BY <1>2, <1>3 DEF MailInv, Mails, Places
  <2>2. \A d \in Codes : ~Queued(d)' => mailed'[d] = 0
    BY <1>1, <1>3 DEF MailInv, Mails, Queued
  <2>3. ASSUME NEW d \in Jobs', \A w \in Workers : worker'[w].job = d => ~worker'[w].sent
        PROVE  mailed'[d] <= stalls'[d]
    <3>1. CASE d = c
      <4>1. mailed' = mailed /\ stalls' = stalls
        BY <1>1
      <4> QED
        BY <2>1, <3>1, <4>1
    <3>2. CASE d # c
      BY <1>1, <1>5, <2>3, <3>2 DEF MailInv, Mails
    <3> QED
      BY <3>1, <3>2
  <2> QED
    BY <1>1, <2>2, <2>3 DEF MailInv, Mails, OneMailPerCode, Busy
<1>10. InOrder'
  <2> SUFFICES ASSUME NEW b \in Codes, NEW d \in Codes, b < d, Queued(d)', b \in Jobs',
                      tries'[b] = 0, stalls'[b] = 0, b \notin overtaken'
               PROVE  mailed'[d] = 0 /\ Comes(b, d)'
    BY DEF InOrder
  <2>1. CASE b = c
    <3>1. Newer(c) = {}
      BY <1>1, <2>1
    <3>2. d # c /\ told[d] = told'[d] /\ told'[d] \in Queueing
      <4>1. d \in Nat /\ b \in Nat
        BY <1>2
      <4>2. d # c
        BY <2>1, <4>1
      <4> QED
        BY <1>3, <4>2 DEF Queued
    <3>3. d \in Newer(c)
      BY <2>1, <3>2 DEF Newer
    <3> QED
      BY <3>1, <3>3
  <2>2. CASE b # c /\ d = c
    <3>1. mailed[d] = 0 /\ d \in Waiting'
      BY <1>2, <1>3, <1>4, <2>2 DEF MailInv, Mails
    <3>2. Before(wait, b, d)
      BY <1>2, <2>2, Facts DEF Before, Elems, Jobs
    <3> QED
      BY <1>1, <1>4, <2>2, <3>1, <3>2 DEF Comes
  <2>3. CASE b # c /\ d # c
    <3>1. Queued(d) /\ b \in Jobs /\ b \notin overtaken /\ tries[b] = 0 /\ stalls[b] = 0
      BY <1>1, <1>3, <1>5, <2>3 DEF Queued
    <3>2. mailed[d] = 0 /\ Comes(b, d)
      BY <3>1 DEF MailInv, InOrder
    <3> QED
      BY <1>1, <1>4, <1>5, <2>3, <3>2 DEF Comes
  <2> QED
    BY <2>1, <2>2, <2>3
<1> QED
  BY <1>6, <1>7, <1>8, <1>9, <1>10 DEF MailInv

\* The backoff of a job is over: it was tried before.
LEMMA PromoteStep ==
  ASSUME MailInv, NEW c \in Codes, Promote(c)
  PROVE  MailInv'
<1>1. /\ c \in delayed /\ delayed' = delayed \ {c} /\ wait' = Append(wait, c)
      /\ UNCHANGED <<codes, handler, worker, tries, stalls>>
      /\ UNCHANGED <<told, mailed, swallowed, lost, overtaken>>
  BY DEF Promote, history
<1>2. /\ c \in Jobs /\ c \notin Waiting /\ c \notin Held /\ c \notin Owed /\ tries[c] > 0
      /\ c \in 1 .. codes /\ Waiting \cap delayed = {}
      /\ (Waiting \cup delayed) \cap (Held \cup Owed) = {}
  BY <1>1 DEF MailInv, TypeOK, Places, Jobs
<1>3. /\ wait' \in Seq(Codes) /\ Distinct(wait') /\ Waiting' = Waiting \cup {c}
      /\ Waiting' = Elems(wait')
      /\ \A b, d : b # c /\ Before(wait, b, d) => Before(wait', b, d)
  <2>1. wait \in Seq(Codes) /\ Distinct(wait) /\ Waiting = Elems(wait) /\ c \notin Elems(wait)
    BY <1>2, Facts DEF MailInv, Places
  <2>2. Waiting' = Elems(wait')
    BY DEF Waiting, Elems
  <2> QED
    BY <1>1, <2>1, <2>2, AppendEffect
<1>4. /\ Held' = Held /\ Owed' = Owed /\ Jobs' = Jobs
  BY <1>1, <1>3 DEF Held, Owed, Jobs
<1>5. TypeOK'
  <2>1. Len(wait') = Cardinality(Waiting')
    BY <1>3, ListLength
  <2>2. Waiting' \subseteq 1 .. codes /\ Waiting' \cap delayed' = {}
        /\ (Waiting' \cup delayed') \cap (Held' \cup Owed') = {}
    BY <1>1, <1>2, <1>3, <1>4 DEF MailInv, TypeOK
  <2> QED
    BY <1>1, <1>4, <2>1, <2>2 DEF MailInv, TypeOK, Busy
<1>6. Places'
  BY <1>1, <1>3, <1>4 DEF MailInv, Places, Queued
<1>7. LossesExplained' /\ Mails'
  BY <1>1, <1>4 DEF MailInv, LossesExplained, Mails, OneMailPerCode, Queued, Busy
<1>8. InOrder'
  <2> SUFFICES ASSUME NEW b \in Codes, NEW d \in Codes, b < d, Queued(d)', b \in Jobs',
                      tries'[b] = 0, stalls'[b] = 0, b \notin overtaken'
               PROVE  mailed'[d] = 0 /\ Comes(b, d)'
    BY DEF InOrder
  <2>1. Queued(d) /\ b \in Jobs /\ b \notin overtaken /\ tries[b] = 0 /\ stalls[b] = 0
    BY <1>1, <1>4 DEF Queued
  <2>2. mailed[d] = 0 /\ Comes(b, d)
    BY <2>1 DEF MailInv, InOrder
  <2>3. b # c
    BY <1>2, <2>1
  <2> QED
    BY <1>1, <1>3, <1>4, <2>2, <2>3 DEF Comes
<1> QED
  BY <1>5, <1>6, <1>7, <1>8 DEF MailInv

\* A worker takes the oldest job of the list; the older ones still at work are overtaken.
LEMMA TakeStep ==
  ASSUME MailInv, NEW w \in Workers, Take(w)
  PROVE  MailInv'
<1> DEFINE x == Head(wait)
           R == [job |-> x, sent |-> FALSE]
<1>1. /\ ~Busy(w) /\ wait # <<>> /\ wait' = Tail(wait)
      /\ worker' = [worker EXCEPT ![w] = R]
      /\ overtaken' = overtaken \cup
           {worker[v].job : v \in {u \in Workers : Busy(u) /\ worker[u].job < x}}
      /\ UNCHANGED <<codes, handler, delayed, tries, stalls, told, mailed, swallowed, lost>>
  BY DEF Take
<1>2. /\ x \in Codes /\ x \in Waiting /\ wait' \in Seq(Codes) /\ Distinct(wait')
      /\ Waiting' = Waiting \ {x} /\ Waiting' = Elems(wait')
      /\ \A c, d : Before(wait, c, d) => Before(wait', c, d)
      /\ \A c : Before(wait, c, x) => c \notin Waiting
  <2>1. wait \in Seq(Codes) /\ Distinct(wait) /\ Waiting = Elems(wait)
    BY Facts DEF MailInv, Places
  <2>2. Waiting' = Elems(wait')
    BY DEF Waiting, Elems
  <2> QED
    BY <1>1, <2>1, <2>2, TailEffect
<1>3. /\ x \in 1 .. codes /\ x \notin Held /\ x \notin delayed /\ x \notin Owed /\ x \in Jobs
      /\ Waiting \cap delayed = {} /\ (Waiting \cup delayed) \cap (Held \cup Owed) = {}
      /\ x # None /\ Codes \subseteq Nat /\ worker \in [Workers -> WorkerRows(codes)]
      /\ \A v \in Workers : Busy(v) => worker[v].job \in Held /\ worker[v].job \in Codes
  BY <1>2, Facts DEF MailInv, TypeOK, Jobs
<1> HIDE DEF x
<1>4. /\ worker' \in [Workers -> WorkerRows(codes)]
      /\ worker'[w].job = x /\ ~worker'[w].sent
      /\ \A v \in Workers : v # w => worker'[v] = worker[v]
  BY <1>1, <1>3 DEF WorkerRows
<1>5. /\ Held' = Held \cup {x} /\ Owed' = Owed /\ Jobs' = Jobs
  <2>1. Held' = Held \cup {x}
    BY <1>1, <1>3, <1>4 DEF Held, Busy
  <2> QED
    BY <1>1, <1>2, <1>3, <2>1 DEF Owed, Jobs
<1>6. TypeOK'
  <2>1. Len(wait') = Cardinality(Waiting')
    BY <1>2, ListLength
  <2>2. Waiting' \subseteq 1 .. codes /\ Waiting' \cap delayed' = {}
        /\ (Waiting' \cup delayed') \cap (Held' \cup Owed') = {}
    <3>1. Waiting \subseteq 1 .. codes /\ delayed' = delayed
      BY <1>1, Facts
    <3> QED
      BY <1>2, <1>3, <1>5, <3>1
  <2>3. \A v, u \in Workers : worker'[v].job = worker'[u].job => v = u \/ ~Busy(v)'
    BY <1>1, <1>3, <1>4, Facts DEF Busy
  <2> QED
    BY <1>1, <1>4, <1>5, <2>1, <2>2, <2>3 DEF MailInv, TypeOK, WorkerRows
<1>7. Places'
  <2>1. overtaken' \subseteq Codes
    <3>1. overtaken \subseteq Codes
      BY DEF MailInv, Places
    <3> QED
      BY <1>1, <1>3, <3>1
  <2> QED
    BY <1>1, <1>2, <1>5, <2>1 DEF MailInv, Places, Queued
<1>8. LossesExplained'
  BY <1>1, <1>5 DEF MailInv, LossesExplained
<1>9. Mails'
  <2>1. \A v \in Workers : Busy(v)' /\ worker'[v].sent => worker'[v] = worker[v] /\ Busy(v)
    BY <1>4 DEF Busy
  <2>2. \A v \in Workers : worker[v].job = None \/ worker'[v] = worker[v]
    BY <1>1, <1>4 DEF Busy
  <2>3. ASSUME NEW c \in Jobs', \A v \in Workers : worker'[v].job = c => ~worker'[v].sent
        PROVE  mailed'[c] <= stalls'[c]
    <3>1. c \in Jobs /\ c # None
      BY <1>5, <2>3, Facts
    <3>2. \A v \in Workers : worker[v].job = c => ~worker[v].sent
      BY <2>2, <2>3, <3>1
    <3> QED
      BY <1>1, <3>1, <3>2 DEF MailInv, Mails
  <2> QED
    BY <1>1, <2>1, <2>3 DEF MailInv, Mails, OneMailPerCode, Queued
<1>10. InOrder'
  <2> SUFFICES ASSUME NEW c \in Codes, NEW d \in Codes, c < d, Queued(d)', c \in Jobs',
                      tries'[c] = 0, stalls'[c] = 0, c \notin overtaken'
               PROVE  mailed'[d] = 0 /\ Comes(c, d)'
    BY DEF InOrder
  <2>1. Queued(d) /\ c \in Jobs /\ c \notin overtaken /\ tries[c] = 0 /\ stalls[c] = 0
    BY <1>1, <1>5 DEF Queued
  <2>2. mailed[d] = 0 /\ Comes(c, d)
    BY <2>1 DEF MailInv, InOrder
  <2>3. d # x
    <3> SUFFICES ASSUME d = x PROVE FALSE
      OBVIOUS
    <3>0. Before(wait, c, x)
      BY <1>3, <2>2 DEF Comes
    <3>1. c \notin Waiting /\ c \notin delayed
      <4>1. c \notin Waiting
        BY <1>2, <3>0
      <4>2. \A b \in delayed : tries[b] > 0
        BY DEF MailInv, Places
      <4> QED
        BY <2>1, <4>1, <4>2
    <3>2. c \in Held
      BY <2>1, <3>1 DEF Jobs
    <3>3. PICK v \in Workers : worker[v].job = c
      BY <3>2 DEF Held
    <3>4. Busy(v) /\ worker[v].job < x
      BY <3>2, <3>3 DEF Busy, Held
    <3>5. worker[v].job \in overtaken'
      BY <1>1, <3>4
    <3> QED
      BY <3>3, <3>5
  <2> QED
    BY <1>1, <1>2, <1>5, <2>2, <2>3 DEF Comes
<1> QED
  BY <1>6, <1>7, <1>8, <1>9, <1>10 DEF MailInv

\* A mail goes out: the worker knows, and a newer job was not mailed unless this one was
\* held up.
LEMMA SendStep ==
  ASSUME MailInv, NEW w \in Workers, Send(w)
  PROVE  MailInv'
<1> DEFINE x == worker[w].job
<1>1. /\ Busy(w) /\ ~worker[w].sent /\ mailed' = [mailed EXCEPT ![x] = @ + 1]
      /\ worker' = [worker EXCEPT ![w].sent = TRUE]
      /\ UNCHANGED <<codes, handler, wait, delayed, tries, stalls, told, swallowed, lost, overtaken>>
  BY DEF Send
<1>2. /\ x \in 1 .. codes /\ x \in Codes /\ x \in Held /\ x \in Jobs /\ x \notin Waiting
      /\ mailed \in [Codes -> Nat] /\ stalls \in [Codes -> 0 .. MaxStalls + 1]
      /\ worker \in [Workers -> WorkerRows(codes)] /\ Jobs \subseteq Codes
      /\ \A v, u \in Workers : Busy(v) /\ worker[v].job = worker[u].job => v = u
      /\ \A v \in Workers : Busy(v) => worker[v].job \in Codes
  <2>1. x \in 1 .. codes /\ x \in Held
    BY <1>1, Facts
  <2> QED
    BY <2>1, Facts DEF MailInv, TypeOK, Jobs
<1>3. /\ worker' \in [Workers -> WorkerRows(codes)]
      /\ \A v \in Workers : worker'[v].job = worker[v].job
      /\ worker'[w].sent /\ \A v \in Workers : v # w => worker'[v] = worker[v]
  BY <1>1, <1>2 DEF WorkerRows
<1>4. /\ mailed' \in [Codes -> Nat] /\ mailed'[x] = mailed[x] + 1
      /\ \A c \in Codes : c # x => mailed'[c] = mailed[c]
  BY <1>1, <1>2
<1>5. mailed[x] <= stalls[x] /\ Queued(x)
  BY <1>1, <1>2 DEF MailInv, Mails, Places
<1> HIDE DEF x
<1>6. /\ Held' = Held /\ Owed' = Owed /\ Waiting' = Waiting /\ Jobs' = Jobs
  <2>1. Held' = Held
    BY <1>3 DEF Held
  <2> QED
    BY <1>1, <2>1 DEF Owed, Waiting, Jobs
<1>7. TypeOK'
  <2>1. \A v, u \in Workers : worker'[v].job = worker'[u].job => v = u \/ ~Busy(v)'
    BY <1>2, <1>3 DEF Busy
  <2> QED
    BY <1>1, <1>3, <1>6, <2>1 DEF MailInv, TypeOK, WorkerRows
<1>8. Places'
  BY <1>1, <1>4, <1>6 DEF MailInv, Places, Queued
<1>9. LossesExplained'
  <2>1. \A c \in 1 .. codes : mailed[c] > 0 => mailed'[c] > 0
    BY <1>2, <1>4, Facts
  <2> QED
    BY <1>1, <1>6, <2>1 DEF MailInv, LossesExplained
<1>10. Mails'
  <2>1. \A c \in Codes : mailed'[c] <= 1 + stalls'[c]
    BY <1>1, <1>2, <1>4, <1>5 DEF MailInv, Mails, OneMailPerCode
  <2>2. \A c \in Codes : ~Queued(c)' => mailed'[c] = 0
    BY <1>1, <1>4, <1>5 DEF MailInv, Mails, Queued
  <2>3. ASSUME NEW v \in Workers, Busy(v)', worker'[v].sent
        PROVE  mailed'[worker'[v].job] > 0
    <3>1. Busy(v) /\ worker[v].job \in Codes
      BY <1>2, <1>3, <2>3 DEF Busy
    <3>2. CASE v = w
      BY <1>2, <1>3, <1>4, <3>2 DEF x
    <3>3. CASE v # w
      <4>1. worker[v].sent /\ worker'[v].job = worker[v].job /\ worker[v].job # x
        BY <1>1, <1>2, <1>3, <2>3, <3>1, <3>3 DEF x
      <4>2. mailed[worker[v].job] > 0
        BY <3>1, <4>1 DEF MailInv, Mails
      <4> QED
        BY <1>4, <3>1, <4>1, <4>2
    <3> QED
      BY <3>2, <3>3
  <2>4. ASSUME NEW c \in Jobs', \A v \in Workers : worker'[v].job = c => ~worker'[v].sent
        PROVE  mailed'[c] <= stalls'[c]
    <3>1. c # x /\ c \in Jobs /\ c \in Codes
      BY <1>2, <1>3, <1>6, <2>4 DEF x
    <3>2. \A v \in Workers : worker[v].job = c => ~worker[v].sent
      BY <1>3, <2>4, <3>1 DEF x
    <3>3. mailed[c] <= stalls[c]
      BY <3>1, <3>2 DEF MailInv, Mails
    <3> QED
      BY <1>1, <1>4, <3>1, <3>3
  <2> QED
    BY <2>1, <2>2, <2>3, <2>4 DEF Mails, OneMailPerCode
<1>11. InOrder'
  BY <1>1, <1>2, <1>4, <1>6 DEF MailInv, InOrder, Comes, Queued
<1> QED
  BY <1>7, <1>8, <1>9, <1>10, <1>11 DEF MailInv


\* At first there are no codes and no jobs.
LEMMA MailInit == Init => MailInv
<1> SUFFICES ASSUME Init PROVE MailInv
  OBVIOUS
<1>1. /\ Waiting = {} /\ Held = {} /\ Owed = {} /\ Jobs = {} /\ delayed = {} /\ codes = 0
      /\ wait = <<>> /\ \A w \in Workers : ~Busy(w)
  BY DEF Init, Waiting, Held, Owed, Jobs, Busy, Free
<1>2. /\ Codes \subseteq Nat /\ MaxCodes \in Nat /\ Attempts \in Nat \ {0} /\ MaxStalls \in Nat
  BY MailAssumption DEF Codes
<1>3. \A c \in Codes : told[c] = "nothing" /\ mailed[c] = 0 /\ tries[c] = 0 /\ stalls[c] = 0
  BY DEF Init
<1>4. TypeOK
  <2>1. Len(wait) = Cardinality(Waiting)
    BY <1>1, FS_EmptySet
  <2>2. worker \in [Workers -> [job : (1 .. codes) \cup {None}, sent : BOOLEAN]]
    BY DEF Init, Free
  <2>3. /\ handler \in [Handlers -> (1 .. codes) \cup {None}] /\ codes \in 0 .. MaxCodes
        /\ tries \in [Codes -> 0 .. Attempts] /\ stalls \in [Codes -> 0 .. MaxStalls + 1]
    BY <1>2 DEF Init
  <2> QED
    BY <1>1, <2>1, <2>2, <2>3 DEF TypeOK
<1>5. Places
  <2>1. wait \in Seq(Codes) /\ Distinct(wait)
    BY <1>1 DEF Distinct
  <2>2. /\ told \in [Codes -> {"nothing", "failed"} \cup Queueing]
        /\ mailed \in [Codes -> Nat] /\ swallowed = {} /\ overtaken = {}
        /\ \A h \in Handlers : handler[h] = None
    BY DEF Init
  <2> QED
    BY <1>1, <1>3, <2>1, <2>2 DEF Places
<1>6. LossesExplained
  BY <1>1 DEF LossesExplained
<1>7. Mails
  BY <1>1, <1>2, <1>3 DEF Mails, OneMailPerCode
<1>8. InOrder
  BY <1>1 DEF InOrder
<1> QED
  BY <1>4, <1>5, <1>6, <1>7, <1>8 DEF MailInv

\* Every step of the queue and of the workers keeps the invariant.
LEMMA MailStep == MailInv /\ [Next]_vars => MailInv'
<1> SUFFICES ASSUME MailInv, [Next]_vars
             PROVE  MailInv'
  OBVIOUS
<1>1. ASSUME NEW h \in Handlers, Commit(h) \/ HandlerStep(h) \/ HandlerDies(h)
      PROVE  MailInv'
  BY <1>1, CommitStep, AddFailsStep, HandlerDiesStep, sendEmailJobStep DEF HandlerStep
<1>2. ASSUME NEW w \in Workers, WorkerStep(w)
      PROVE  MailInv'
  BY <1>2, TakeStep, SendStep, WorkEnds DEF WorkerStep
<1>3. CASE UNCHANGED vars
  <2>1. /\ UNCHANGED <<codes, handler, wait, delayed, worker, tries, stalls>>
        /\ UNCHANGED <<told, mailed, swallowed, lost, overtaken>>
    BY <1>3 DEF vars, jobs, history
  <2>2. Waiting' = Waiting /\ Held' = Held /\ Owed' = Owed /\ Jobs' = Jobs
    BY <2>1 DEF Waiting, Held, Owed, Jobs
  <2>3. Len(wait') = Cardinality(Waiting')
    <3>1. Len(wait) = Cardinality(Waiting)
      BY DEF MailInv, TypeOK
    <3> QED
      BY <2>1, <2>2, <3>1, Zenon
  <2> QED
    BY <2>1, <2>2, <2>3 DEF MailInv, TypeOK, LossesExplained, Places, Mails, InOrder,
                            Comes, OneMailPerCode, Queued, Busy
<1> QED
  BY <1>1, <1>2, <1>3, PromoteStep, LoseQueueStep DEF Next

-----------------------------------------------------------------------------
(* Theorems. *)

\* A job is in one place, has attempts left there, and its code is committed.
THEOREM TypeCorrect == Spec => []TypeOK
<1>1. MailInv => TypeOK
  BY DEF MailInv
<1> QED
  BY MailInit, MailStep, <1>1, PTL DEF Spec

\* A code that was committed is on its way, was mailed, or was lost for one of the six causes.
THEOREM Traced == Spec => []LossesExplained
<1>1. MailInv => LossesExplained
  BY DEF MailInv
<1> QED
  BY MailInit, MailStep, <1>1, PTL DEF Spec

\* A code is mailed once, and once more at most for each worker that died with its job.
THEOREM MailedOnce == Spec => []OneMailPerCode
<1>1. MailInv => OneMailPerCode
  BY DEF MailInv, Mails
<1> QED
  BY MailInit, MailStep, <1>1, PTL DEF Spec

\* No older code arrives after a newer one unless it was held up or overtaken.
THEOREM InOrderOfCodes == Spec => NewestArrivesLast
<1>1. MailInv /\ [Next]_vars
        => [\A c, d \in Codes :
              c < d /\ mailed'[c] > mailed[c] /\ mailed[d] > 0
                => tries[c] > 0 \/ stalls[c] > 0 \/ c \in overtaken]_vars
  <2> SUFFICES ASSUME MailInv, Next, NEW c \in Codes, NEW d \in Codes,
                      c < d, mailed'[c] > mailed[c], mailed[d] > 0
               PROVE  tries[c] > 0 \/ stalls[c] > 0 \/ c \in overtaken
    OBVIOUS
  <2>1. mailed \in [Codes -> Nat]
    BY Facts
  <2>2. mailed' # mailed
    BY <2>1
  <2>3. PICK w \in Workers : Send(w) \/ Swallow(w)
    BY <2>2 DEF Next, HandlerStep, WorkerStep, Commit, sendEmailJob, AddFails, HandlerDies, Take,
                Complete, Throw, WorkerDies, Promote, LoseQueue, history
  <2>4. c = worker[w].job /\ Busy(w)
    BY <2>1, <2>3 DEF Send, Swallow
  <2>5. c \in Jobs /\ Queued(d)
    BY <2>4, Facts DEF Jobs, MailInv, Mails
  <2>6. ~(tries[c] = 0 /\ stalls[c] = 0 /\ c \notin overtaken)
    BY <2>5 DEF MailInv, InOrder
  <2> QED
    BY <2>6, Facts, MailAssumption
<1> QED
  BY MailInit, MailStep, <1>1, PTL DEF Spec, NewestArrivesLast

=============================================================================
