-------------------------- MODULE ApplicationProofs --------------------------
(***************************************************************************)
(* Proofs about the parts that applications meet, for any number of        *)
(* operations on them.  First ServletDispatch: the vector of globs stays   *)
(* exact and a request is answered from it, for any uris, globs and        *)
(* servlets.  Then ConfigLog: what listeners keep follows the variables,   *)
(* for any number of threads that load any documents.  Last ParserWalk:    *)
(* both generated parsers report every message they accept as it is        *)
(* written, for any characters and any length.                             *)
(***************************************************************************)
EXTENDS ServletDispatch, ConfigLog, ParserWalk, CommonLemmas, SequenceTheorems, TLAPS

----------------------------------------------------------------------------
(* Servlets *)

Entry == Globs \X Servlets
TypeOK ==
    /\ m_globs \in Seq(Entry)
    /\ registered \in [Globs -> Servlets \cup {None}]

(* GlobsExact, entry by entry. *)
Sound == \A i \in DOMAIN m_globs : registered[m_globs[i][1]] = m_globs[i][2]
Complete == \A g \in Globs : registered[g] # None => \E i \in DOMAIN m_globs : m_globs[i][1] = g
Unique == \A i, j \in DOMAIN m_globs : m_globs[i][1] = m_globs[j][1] => i = j
DispatchInv == TypeOK /\ Sound /\ Complete /\ Unique

(* A path that is no registered uri gets the servlet of a registered glob  *)
(* that matches it, and the default when there is none.                    *)
MatchedBy(path, g) == g \in Globs /\ registered[g] # None /\ fnmatch(g, path)
AnsweredByGlob(path) ==
    path \notin DOMAIN m_datas =>
        \/ \E g \in Globs : MatchedBy(path, g) /\ getMatchedServlet(path) = registered[g]
        \/ (\A g \in Globs : ~MatchedBy(path, g)) /\ getMatchedServlet(path) = m_default

----------------------------------------------------------------------------
(* The entries of the vector are what GlobsExact says. *)
LEMMA InvIsExact == DispatchInv => GlobsExact
<1> SUFFICES ASSUME DispatchInv PROVE GlobsExact
  OBVIOUS
<1> DEFINE known == {h \in Globs : registered[h] # None}
<1>1. ASSUME NEW i \in DOMAIN m_globs
      PROVE m_globs[i][1] \in known /\ m_globs[i] = <<m_globs[i][1], registered[m_globs[i][1]]>>
  <2>1. m_globs[i] \in Entry
    BY LenProperties DEF DispatchInv, TypeOK
  <2> QED BY <2>1, ServletsAssumption DEF Entry, DispatchInv, Sound
<1>2. ASSUME NEW g \in known
      PROVE \E i \in DOMAIN m_globs : m_globs[i] = <<g, registered[g]>>
  <2>1. PICK i \in DOMAIN m_globs : m_globs[i][1] = g
    BY DEF DispatchInv, Complete
  <2> QED BY <1>1, <2>1
<1> HIDE DEF known
<1>3. {m_globs[i] : i \in DOMAIN m_globs} = {<<g, registered[g]>> : g \in known}
  BY <1>1, <1>2
<1>4. \A i, j \in DOMAIN m_globs : m_globs[i][1] = m_globs[j][1] => i = j
  BY DEF DispatchInv, Unique
<1> QED BY <1>3, <1>4 DEF GlobsExact, known

(* Erasing the first entry of g erases every entry of g, since no glob has *)
(* two, and leaves the others.                                             *)
LEMMA EraseExact ==
    ASSUME DispatchInv, NEW g \in Globs, NEW r, r = EraseGlob(m_globs, g)
    PROVE  /\ r \in Seq(Entry)
           /\ \A i \in DOMAIN r : \E j \in DOMAIN m_globs : r[i] = m_globs[j] /\ r[i][1] # g
           /\ \A j \in DOMAIN m_globs : m_globs[j][1] # g => \E i \in DOMAIN r : r[i] = m_globs[j]
           /\ \A i, j \in DOMAIN r : r[i][1] = r[j][1] => i = j
<1> DEFINE n == Len(m_globs)
<1>1. m_globs \in Seq(Entry) /\ n \in Nat /\ DOMAIN m_globs = 1..n
  BY LenProperties DEF DispatchInv, TypeOK
<1>2. CASE \A i \in DOMAIN m_globs : m_globs[i][1] # g
  <2>1. r = m_globs
    BY <1>2 DEF EraseGlob
  <2> QED BY <1>1, <1>2, <2>1 DEF DispatchInv, Unique
<1>3. CASE \E i \in DOMAIN m_globs : m_globs[i][1] = g
  <2> DEFINE hits == {i \in DOMAIN m_globs : m_globs[i][1] = g}
  <2>1. hits # {} /\ hits \in SUBSET Nat
    BY <1>1, <1>3
  <2>2. \E i \in hits : \A j \in hits : i <= j
    BY <2>1, MinExists
  <2>3. PICK k \in hits : r = RemoveAt(m_globs, k)
    BY <2>1, <2>2 DEF EraseGlob
  <2>4. k \in 1..n /\ m_globs[k][1] = g /\ \A i \in 1..n : m_globs[i][1] = g => i = k
    BY <1>1, <2>3 DEF DispatchInv, Unique
  <2> HIDE DEF n, hits
  <2>5. r \in Seq(Entry) /\ Len(r) = n - 1
          /\ \A j \in 1..(n - 1) : r[j] = IF j < k THEN m_globs[j] ELSE m_globs[j + 1]
    BY <1>1, <2>3, <2>4, RemoveAtSeq DEF n
  <2>6. DOMAIN r = 1..(n - 1)
    BY <2>5, LenProperties
  <2> DEFINE old(j) == IF j < k THEN j ELSE j + 1
  <2>7. \A j \in DOMAIN r : old(j) \in 1..n /\ old(j) # k /\ r[j] = m_globs[old(j)]
    BY <1>1, <2>4, <2>5, <2>6
  <2>8. \A i, j \in DOMAIN r : old(i) = old(j) => i = j
    BY <1>1, <2>4, <2>6
  <2>9. ASSUME NEW j \in 1..n, j # k PROVE \E i \in DOMAIN r : r[i] = m_globs[j]
    <3>1. CASE j < k
      BY <1>1, <2>4, <2>5, <2>6, <2>9, <3>1
    <3>2. CASE ~(j < k)
      <4>1. j - 1 \in 1..(n - 1) /\ ~(j - 1 < k) /\ (j - 1) + 1 = j
        BY <1>1, <2>4, <2>9, <3>2
      <4>2. r[j - 1] = m_globs[j]
        BY <2>5, <4>1
      <4> QED BY <2>6, <4>1, <4>2
    <3> QED BY <3>1, <3>2
  <2> HIDE DEF old
  <2>10. \A i, j \in DOMAIN r : r[i][1] = r[j][1] => i = j
    BY <1>1, <2>7, <2>8 DEF DispatchInv, Unique
  <2>11. \A i \in DOMAIN r : \E j \in DOMAIN m_globs : r[i] = m_globs[j] /\ r[i][1] # g
    BY <1>1, <2>4, <2>7
  <2>12. \A j \in DOMAIN m_globs : m_globs[j][1] # g => \E i \in DOMAIN r : r[i] = m_globs[j]
    BY <1>1, <2>4, <2>9
  <2> QED BY <2>5, <2>10, <2>11, <2>12
<1> QED BY <1>2, <1>3

(* An entry for a glob that has none goes to the end of the vector. *)
LEMMA AppendEntry ==
    ASSUME NEW r \in Seq(Entry), NEW e \in Entry, NEW s, s = Append(r, e)
    PROVE  /\ s \in Seq(Entry) /\ DOMAIN s = DOMAIN r \cup {Len(r) + 1} /\ s[Len(r) + 1] = e
           /\ \A i \in DOMAIN r : s[i] = r[i] /\ i # Len(r) + 1
<1>1. Len(r) \in Nat /\ DOMAIN r = 1..Len(r)
  BY LenProperties
<1>2. s \in Seq(Entry) /\ Len(s) = Len(r) + 1 /\ s[Len(r) + 1] = e /\ \A i \in 1..Len(r) : s[i] = r[i]
  BY AppendProperties
<1>3. DOMAIN s = 1..(Len(r) + 1)
  BY <1>2, LenProperties
<1> QED BY <1>1, <1>2, <1>3

(* Every registration and removal keeps the vector exact. *)
LEMMA RegisterStep ==
    ASSUME DispatchInv, [Register]_dispatchVars
    PROVE  DispatchInv'
<1> USE DEF DispatchInv
<1>1. CASE UNCHANGED <<m_globs, registered>>
  BY <1>1 DEF TypeOK, Sound, Complete, Unique
<1>2. ASSUME NEW g \in Globs, delGlobServlet(g) PROVE DispatchInv'
  <2>1. m_globs' = EraseGlob(m_globs, g)
    BY <1>2 DEF delGlobServlet
  <2>2. \A h \in Globs : registered'[h] = IF h = g THEN None ELSE registered[h]
    BY <1>2 DEF delGlobServlet, TypeOK
  <2>3. TypeOK'
    BY <1>2, <2>1, EraseExact DEF delGlobServlet, TypeOK
  <2>4. \A i \in DOMAIN m_globs : m_globs[i] \in Entry
    BY LenProperties DEF TypeOK
  <2>5. Sound'
    BY <2>1, <2>2, <2>4, EraseExact DEF Sound, Entry
  <2>6. Complete'
    BY <2>1, <2>2, EraseExact DEF Complete
  <2>7. Unique'
    BY <2>1, EraseExact DEF Unique
  <2> QED BY <2>3, <2>5, <2>6, <2>7
<1>3. ASSUME NEW g \in Globs, NEW slt \in Servlets, addGlobServlet(g, slt) PROVE DispatchInv'
  <2> DEFINE r == EraseGlob(m_globs, g)
  <2> DEFINE e == <<g, slt>>
  <2>1. m_globs' = Append(r, e) /\ e \in Entry
    BY <1>3 DEF addGlobServlet, PutGlob, Entry
  <2>2. /\ r \in Seq(Entry)
        /\ \A i \in DOMAIN r : \E j \in DOMAIN m_globs : r[i] = m_globs[j] /\ r[i][1] # g
        /\ \A j \in DOMAIN m_globs : m_globs[j][1] # g => \E i \in DOMAIN r : r[i] = m_globs[j]
        /\ \A i, j \in DOMAIN r : r[i][1] = r[j][1] => i = j
    BY EraseExact
  <2>3. e[1] = g /\ e[2] = slt
    OBVIOUS
  <2> HIDE DEF r, e
  <2> DEFINE last == Len(r) + 1
  <2>4. /\ m_globs' \in Seq(Entry) /\ DOMAIN m_globs' = DOMAIN r \cup {last} /\ m_globs'[last] = e
        /\ \A i \in DOMAIN r : m_globs'[i] = r[i] /\ i # last
    BY <2>1, <2>2, AppendEntry
  <2> HIDE DEF last
  <2>5. \A h \in Globs : registered'[h] = IF h = g THEN slt ELSE registered[h]
    BY <1>3 DEF addGlobServlet, TypeOK
  <2>6. TypeOK'
    BY <1>3, <2>4 DEF addGlobServlet, TypeOK
  <2>7. \A i \in DOMAIN m_globs : m_globs[i] \in Entry
    BY LenProperties DEF TypeOK
  <2>8. Sound'
    BY <2>2, <2>3, <2>4, <2>5, <2>7 DEF Sound, Entry
  <2>9. Complete'
    BY <2>2, <2>3, <2>4, <2>5 DEF Complete
  <2>10. Unique'
    BY <2>2, <2>3, <2>4 DEF Unique
  <2> QED BY <2>6, <2>8, <2>9, <2>10
<1>4. CASE UNCHANGED dispatchVars \/ (\E u \in Uris, s \in Servlets : addServlet(u, s))
             \/ (\E u \in Uris : delServlet(u)) \/ (\E s \in Servlets : setDefault(s))
  BY <1>1, <1>4 DEF dispatchVars, addServlet, delServlet, setDefault
<1> QED BY <1>2, <1>3, <1>4 DEF Register

(* At first nothing is registered. *)
LEMMA InitExact == InitDispatch => DispatchInv
<1> SUFFICES ASSUME InitDispatch PROVE DispatchInv
  OBVIOUS
<1>1. m_globs \in Seq(Entry) /\ DOMAIN m_globs = {}
  BY EmptySeq DEF InitDispatch
<1>2. registered \in [Globs -> Servlets \cup {None}] /\ \A g \in Globs : registered[g] = None
  BY DEF InitDispatch
<1> QED BY <1>1, <1>2 DEF DispatchInv, TypeOK, Sound, Complete, Unique

(* The inductive invariant of registration. *)
THEOREM DispatchInductive == DispatchSpec => []DispatchInv
<1>1. DispatchInv /\ [Register]_dispatchVars => DispatchInv'
  BY RegisterStep
<1> QED BY <1>1, InitExact, PTL DEF DispatchSpec

(* Whatever is added, replaced and removed, in whatever order, the vector  *)
(* has for each registered glob one entry, with the servlet registered     *)
(* last, and none for the others, although delGlobServlet stops at the     *)
(* first match.                                                            *)
THEOREM GlobsCorrect == DispatchSpec => []GlobsExact
BY DispatchInductive, InvIsExact, PTL

(* getMatchedServlet finds a registered glob whenever one matches.  *)
LEMMA MatchFindsGlob ==
    ASSUME DispatchInv, NEW path
    PROVE  AnsweredByGlob(path)
<1> SUFFICES ASSUME path \notin DOMAIN m_datas
             PROVE  \/ \E g \in Globs : MatchedBy(path, g) /\ getMatchedServlet(path) = registered[g]
                    \/ (\A g \in Globs : ~MatchedBy(path, g)) /\ getMatchedServlet(path) = m_default
  BY DEF AnsweredByGlob
<1> DEFINE hits == {i \in DOMAIN m_globs : fnmatch(m_globs[i][1], path)}
<1>1. DOMAIN m_globs \in SUBSET Nat /\ \A i \in DOMAIN m_globs : m_globs[i] \in Entry
  BY LenProperties DEF DispatchInv, TypeOK
<1>2. CASE hits = {}
  <2>1. getMatchedServlet(path) = m_default
    BY <1>2 DEF getMatchedServlet
  <2>2. \A g \in Globs : ~MatchedBy(path, g)
    BY <1>2 DEF MatchedBy, DispatchInv, Complete
  <2> QED BY <2>1, <2>2
<1>3. CASE hits # {}
  <2>1. \E i \in hits : \A j \in hits : i <= j
    BY <1>1, <1>3, MinExists
  <2>2. PICK k \in hits : getMatchedServlet(path) = m_globs[k][2]
    BY <1>3, <2>1 DEF getMatchedServlet
  <2> DEFINE g == m_globs[k][1]
  <2>3. g \in Globs /\ m_globs[k][2] \in Servlets /\ fnmatch(g, path)
    BY <1>1, <2>2 DEF Entry
  <2>4. registered[g] = m_globs[k][2]
    BY <2>2 DEF DispatchInv, Sound
  <2> QED BY <2>2, <2>3, <2>4, ServletsAssumption DEF MatchedBy
<1> QED BY <1>2, <1>3

(* A request for a path that is no registered uri is answered by a servlet *)
(* registered for a glob that matches the path and not removed since, and  *)
(* by the default only if there is no such glob.                           *)
THEOREM AnswersFollowRegistration ==
    ASSUME NEW CONSTANT path
    PROVE  DispatchSpec => []AnsweredByGlob(path)
<1>1. DispatchInv => AnsweredByGlob(path)
  BY MatchFindsGlob
<1> QED BY <1>1, DispatchInductive, PTL

----------------------------------------------------------------------------
(* Configuration and loggers *)

(* The texts: those of the definitions and those that the code names. *)
Texts     == STRING \cup {Default, NoFormat, Bad, "stdout", "short"}
Appender  == [type : Texts, level : Int, formatter : Texts, own : BOOLEAN]
LoggerRec == [level : Int, formatter : Texts, appenders : Seq(Appender)]

(* FormattersFollow for one logger. *)
Agrees(lg) ==
    /\ lg.formatter \notin {Bad, NoFormat}
    /\ \A i \in DOMAIN lg.appenders :
         LET a == lg.appenders[i] IN
         IF a.own THEN a.formatter \notin {Bad, NoFormat} ELSE a.formatter = lg.formatter

GoodLogger(lg) == lg \in LoggerRec /\ Agrees(lg)
GoodLoggers(ls) == ls = [n \in DOMAIN ls |-> ls[n]] /\ \A n \in DOMAIN ls : GoodLogger(ls[n])

(* LoggersFollow for one definition, and for a value of "logs". *)
Matches(lg, d) ==
    /\ lg.level = d.level
    /\ Len(lg.appenders) = Len(d.appenders)
    /\ \A i \in DOMAIN d.appenders :
         /\ lg.appenders[i].type = d.appenders[i].type
         /\ lg.appenders[i].level = d.appenders[i].level
Follows(ls, v) == \A d \in v : d.name \in DOMAIN ls /\ Matches(ls[d.name], d)

(* The loggers of the names in S have the level that lets nothing through. *)
Silent(ls, S) == \A n \in S : n \in DOMAIN ls /\ ls[n].level = Deleted

----------------------------------------------------------------------------
(* One logger *)

(* A function on 1 .. n is a sequence. *)
LEMMA FunctionIsSeq ==
    ASSUME NEW S, NEW n \in Nat, NEW f \in [1 .. n -> S]
    PROVE  f \in Seq(S) /\ Len(f) = n /\ DOMAIN f = 1 .. n
<1>1. f \in Seq(S)
  BY SeqDef
<1> QED BY <1>1, LenProperties

(* A new logger is in order. *)
LEMMA NewLoggerGood == GoodLogger(NewLogger)
<1>1. NewLogger \in LoggerRec
  <2>1. <<>> \in Seq(Appender)
    OBVIOUS
  <2>2. Default \in Texts
    BY DEF Texts
  <2> QED BY <2>1, <2>2 DEF LoggerRec, NewLogger, DEBUG
<1>2. Agrees(NewLogger)
  BY EmptySeq DEF Agrees, NewLogger, Default, Bad, NoFormat
<1> QED BY <1>1, <1>2 DEF GoodLogger

(* Logger::setFormatter keeps a logger in order, its level and what its    *)
(* appenders are.                                                          *)
LEMMA SetFormatterGood ==
    ASSUME NEW lg, GoodLogger(lg), NEW f \in Texts, f # NoFormat
    PROVE  /\ GoodLogger(setFormatter(lg, f))
           /\ setFormatter(lg, f).level = lg.level
           /\ Len(setFormatter(lg, f).appenders) = Len(lg.appenders)
           /\ \A i \in DOMAIN lg.appenders :
                /\ setFormatter(lg, f).appenders[i].type = lg.appenders[i].type
                /\ setFormatter(lg, f).appenders[i].level = lg.appenders[i].level
<1>1. CASE f = Bad
  BY <1>1 DEF setFormatter
<1>2. CASE f # Bad
  <2> DEFINE aps == [i \in DOMAIN lg.appenders |-> Follow(lg.appenders[i], f)]
             new == [lg EXCEPT !.formatter = f, !.appenders = aps]
  <2>1. setFormatter(lg, f) = new
    BY <1>2 DEF setFormatter
  <2>2. lg \in LoggerRec /\ lg.appenders \in Seq(Appender) /\ DOMAIN lg.appenders = 1 .. Len(lg.appenders)
        /\ Len(lg.appenders) \in Nat
    BY DEF GoodLogger, LoggerRec
  <2>3. \A i \in DOMAIN lg.appenders :
          /\ aps[i] \in Appender
          /\ aps[i].type = lg.appenders[i].type /\ aps[i].level = lg.appenders[i].level
          /\ aps[i].own = lg.appenders[i].own
          /\ IF aps[i].own THEN aps[i].formatter = lg.appenders[i].formatter ELSE aps[i].formatter = f
    <3> TAKE i \in DOMAIN lg.appenders
    <3>1. lg.appenders[i] \in Appender /\ aps[i] = Follow(lg.appenders[i], f)
      BY <2>2
    <3> QED BY <3>1 DEF Follow, Appender
  <2>4. aps \in Seq(Appender) /\ Len(aps) = Len(lg.appenders) /\ DOMAIN aps = DOMAIN lg.appenders
    <3>1. aps \in [1 .. Len(lg.appenders) -> Appender]
      BY <2>2, <2>3
    <3> QED BY <3>1, <2>2, FunctionIsSeq
  <2> HIDE DEF aps
  <2>5. new \in LoggerRec /\ new.formatter = f /\ new.appenders = aps /\ new.level = lg.level
    BY <2>2, <2>4 DEF LoggerRec
  <2>6. Agrees(new)
    BY <1>2, <2>3, <2>4, <2>5 DEF Agrees, GoodLogger
  <2> HIDE DEF new
  <2> QED BY <2>1, <2>3, <2>4, <2>5, <2>6 DEF GoodLogger
<1> QED BY <1>1, <1>2

(* An appender that the listener makes and a logger adopts. *)
LEMMA AdoptedNew ==
    ASSUME NEW lg \in LoggerRec, lg.formatter \in Texts, NEW a \in LogAppenderDefine
    PROVE  LET ap == Adopted(lg, NewAppender(a)) IN
           /\ ap \in Appender
           /\ ap.type = a.type /\ ap.level = a.level
           /\ IF ap.own THEN ap.formatter \notin {Bad, NoFormat} ELSE ap.formatter = lg.formatter
<1>1. CASE a.formatter \in {NoFormat, Bad}
  <2> DEFINE n == [type |-> a.type, level |-> a.level, formatter |-> NoFormat, own |-> FALSE]
  <2>1. NewAppender(a) = n
    BY <1>1 DEF NewAppender
  <2>2. Adopted(lg, n) = [type |-> a.type, level |-> a.level, formatter |-> lg.formatter, own |-> FALSE]
    BY DEF Adopted
  <2>3. a.type \in Texts /\ a.level \in Int
    BY DEF LogAppenderDefine, Texts
  <2>4. Adopted(lg, NewAppender(a)) = [type |-> a.type, level |-> a.level, formatter |-> lg.formatter, own |-> FALSE]
    BY <2>1, <2>2
  <2> HIDE DEF n
  <2> QED BY <2>3, <2>4 DEF Appender
<1>2. CASE a.formatter \notin {NoFormat, Bad}
  <2>1. Adopted(lg, NewAppender(a)) = [type |-> a.type, level |-> a.level, formatter |-> a.formatter, own |-> TRUE]
    BY <1>2 DEF Adopted, NewAppender
  <2> QED BY <2>1, <1>2 DEF Appender, LogAppenderDefine, Texts
<1> QED BY <1>1, <1>2

(* A definition makes of any logger one that is in order and as it says. *)
LEMMA DefineGood ==
    ASSUME NEW lg, GoodLogger(lg), NEW d \in LogDefine
    PROVE  GoodLogger(Define(lg, d)) /\ Matches(Define(lg, d), d)
<1> DEFINE set == [lg EXCEPT !.level = d.level]
           fmt == IF d.formatter = NoFormat THEN set ELSE setFormatter(set, d.formatter)
           aps == [i \in DOMAIN d.appenders |-> Adopted(fmt, NewAppender(d.appenders[i]))]
           new == [fmt EXCEPT !.appenders = aps]
<1>1. Define(lg, d) = new
  BY DEF Define
<1>2. d.level \in Int /\ d.formatter \in Texts /\ d.appenders \in Seq(LogAppenderDefine)
  BY DEF LogDefine, Texts
<1>3. set \in LoggerRec /\ set.level = d.level /\ set.formatter = lg.formatter /\ set.appenders = lg.appenders
  BY <1>2 DEF GoodLogger, LoggerRec
<1>4. GoodLogger(set)
  BY <1>3 DEF GoodLogger, Agrees
<1> HIDE DEF set
<1>5. GoodLogger(fmt) /\ fmt.level = d.level
  BY <1>2, <1>3, <1>4, SetFormatterGood
<1> HIDE DEF fmt
<1>6. fmt \in LoggerRec /\ fmt.formatter \in Texts /\ fmt.formatter \notin {Bad, NoFormat}
  BY <1>5 DEF GoodLogger, Agrees, LoggerRec
<1>7. \A i \in DOMAIN d.appenders :
        /\ aps[i] \in Appender
        /\ aps[i].type = d.appenders[i].type /\ aps[i].level = d.appenders[i].level
        /\ IF aps[i].own THEN aps[i].formatter \notin {Bad, NoFormat} ELSE aps[i].formatter = fmt.formatter
  <2> TAKE i \in DOMAIN d.appenders
  <2>1. d.appenders[i] \in LogAppenderDefine /\ aps[i] = Adopted(fmt, NewAppender(d.appenders[i]))
    BY <1>2
  <2> QED BY <2>1, <1>6, AdoptedNew
<1>8. aps \in Seq(Appender) /\ Len(aps) = Len(d.appenders) /\ DOMAIN aps = DOMAIN d.appenders
  <2>1. Len(d.appenders) \in Nat /\ DOMAIN d.appenders = 1 .. Len(d.appenders)
    BY <1>2, LenProperties
  <2>2. aps \in [1 .. Len(d.appenders) -> Appender]
    BY <2>1, <1>7
  <2> QED BY <2>1, <2>2, FunctionIsSeq
<1> HIDE DEF aps
<1>9. new \in LoggerRec /\ new.appenders = aps /\ new.level = fmt.level /\ new.formatter = fmt.formatter
  BY <1>6, <1>8 DEF LoggerRec
<1> HIDE DEF new
<1>10. Agrees(new)
  BY <1>6, <1>7, <1>8, <1>9 DEF Agrees
<1>11. Matches(new, d)
  BY <1>5, <1>7, <1>8, <1>9 DEF Matches
<1> QED BY <1>1, <1>9, <1>10, <1>11 DEF GoodLogger

(* A deleted logger is in order and lets nothing through. *)
LEMMA DeleteGood ==
    ASSUME NEW lg, GoodLogger(lg)
    PROVE  GoodLogger(Delete(lg)) /\ Delete(lg).level = Deleted
<1>1. lg \in LoggerRec /\ lg.formatter \in Texts /\ <<>> \in Seq(Appender)
  BY EmptySeq DEF GoodLogger, LoggerRec
<1> DEFINE cleared == [lg EXCEPT !.appenders = <<>>]
<1>2. cleared \in LoggerRec /\ cleared.formatter = lg.formatter /\ cleared.appenders = <<>>
  BY <1>1 DEF LoggerRec
<1> HIDE DEF cleared
<1> DEFINE gone == [cleared EXCEPT !.level = Deleted]
<1>3. gone \in LoggerRec /\ gone.formatter = lg.formatter /\ gone.appenders = <<>> /\ gone.level = Deleted
  BY <1>2 DEF LoggerRec, Deleted
<1>4. Delete(lg) = gone
  BY DEF Delete, clearAppends, cleared
<1> HIDE DEF gone
<1>5. Agrees(gone)
  BY <1>3, EmptySeq DEF Agrees, GoodLogger
<1> QED BY <1>3, <1>4, <1>5 DEF GoodLogger

----------------------------------------------------------------------------
(* All loggers *)

(* The listener leaves the loggers in order and as the new value says,     *)
(* silences those that are gone, and leaves the others alone.              *)
LEMMA ListenerGood ==
    ASSUME NEW ls, GoodLoggers(ls), NEW old, NEW new, LogDefines(new)
    PROVE  LET after == Listener(ls, old, new) IN
           /\ GoodLoggers(after)
           /\ Follows(after, new)
           /\ Silent(after, Names(old) \ Names(new))
           /\ \A S : S \cap (Names(old) \cup Names(new)) = {} /\ Silent(ls, S) => Silent(after, S)
<1> DEFINE got(n) == IF n \in DOMAIN ls THEN ls[n] ELSE NewLogger
           dom == DOMAIN ls \cup Names(old) \cup Names(new)
           one(n) == IF n \in Names(new) THEN Define(got(n), CHOOSE d \in new : d.name = n)
                     ELSE IF n \in Names(old) \ Names(new) THEN Delete(got(n)) ELSE got(n)
           after == Listener(ls, old, new)
<1>1. after = [n \in dom |-> one(n)]
  BY DEF Listener
<1>2. \A n : GoodLogger(got(n))
  BY NewLoggerGood DEF GoodLoggers
<1> HIDE DEF got
<1>3. \A d \in new : (CHOOSE e \in new : e.name = d.name) = d
  BY DEF LogDefines
<1>4. \A d \in new : d \in LogDefine /\ d.name \in Names(new)
                     /\ one(d.name) = Define(got(d.name), d)
  BY <1>3 DEF LogDefines, Names
<1>5. \A n \in Names(new) : \E d \in new : d.name = n
  BY DEF Names
<1>6. \A n \in Names(new) : GoodLogger(one(n))
  <2> TAKE n \in Names(new)
  <2>1. PICK d \in new : d.name = n
    BY <1>5
  <2> QED BY <2>1, <1>4, <1>2, DefineGood
<1>7. \A n \in Names(old) \ Names(new) : GoodLogger(one(n)) /\ one(n).level = Deleted
  BY <1>2, DeleteGood
<1>8. \A n \in dom \ (Names(old) \cup Names(new)) : one(n) = ls[n] /\ GoodLogger(one(n))
  BY <1>2 DEF got
<1>9. \A d \in new : Matches(one(d.name), d)
  BY <1>2, <1>4, DefineGood
<1>10. DOMAIN after = dom /\ after = [n \in DOMAIN after |-> after[n]] /\ \A n \in dom : after[n] = one(n)
  BY <1>1
<1> HIDE DEF after, one
<1>11. GoodLoggers(after)
  BY <1>6, <1>7, <1>8, <1>10 DEF GoodLoggers
<1>12. Follows(after, new)
  BY <1>4, <1>9, <1>10 DEF Follows
<1>13. Silent(after, Names(old) \ Names(new))
  BY <1>7, <1>10 DEF Silent
<1>14. ASSUME NEW S, S \cap (Names(old) \cup Names(new)) = {}, Silent(ls, S)
       PROVE  Silent(after, S)
  BY <1>8, <1>10, <1>14 DEF Silent
<1> QED BY <1>11, <1>12, <1>13, <1>14 DEF after

(* Logger::setFormatter on one of them, which may be new. *)
LEMMA FormatGood ==
    ASSUME NEW ls, GoodLoggers(ls), NEW name, NEW f \in Texts, f # NoFormat
    PROVE  LET after == [getLogger(ls, name) EXCEPT ![name] = setFormatter(@, f)] IN
           /\ GoodLoggers(after)
           /\ \A v : LogDefines(v) /\ Follows(ls, v) => Follows(after, v)
           /\ \A S : Silent(ls, S) => Silent(after, S)
<1> DEFINE all == getLogger(ls, name)
           after == [all EXCEPT ![name] = setFormatter(@, f)]
<1>1. /\ DOMAIN all = DOMAIN ls \cup {name} /\ all = [n \in DOMAIN all |-> all[n]]
      /\ \A n \in DOMAIN ls : all[n] = ls[n]
      /\ GoodLogger(all[name])
  <2>1. CASE name \in DOMAIN ls
    BY <2>1 DEF getLogger, GoodLoggers
  <2>2. CASE name \notin DOMAIN ls
    BY <2>2, NewLoggerGood DEF getLogger
  <2> QED BY <2>1, <2>2
<1> HIDE DEF all
<1>2. /\ DOMAIN after = DOMAIN all /\ after = [n \in DOMAIN after |-> after[n]]
      /\ after[name] = setFormatter(all[name], f)
      /\ \A n \in DOMAIN all : n # name => after[n] = all[n]
  BY <1>1
<1> HIDE DEF after
<1>3. GoodLoggers(after)
  BY <1>1, <1>2, SetFormatterGood DEF GoodLoggers
<1>4. \A n \in DOMAIN ls : n \in DOMAIN after /\ after[n].level = ls[n].level
  BY <1>1, <1>2, SetFormatterGood
<1>5. ASSUME NEW d \in LogDefine, d.name \in DOMAIN ls, Matches(ls[d.name], d)
      PROVE  Matches(after[d.name], d)
  <2>1. CASE d.name # name
    BY <1>1, <1>2, <1>5, <2>1
  <2>2. CASE d.name = name
    <3> DEFINE lg == ls[name]
    <3>1. GoodLogger(lg) /\ after[name] = setFormatter(lg, f)
      BY <1>1, <1>2, <1>5, <2>2
    <3>2. lg.appenders \in Seq(Appender) /\ d.appenders \in Seq(LogAppenderDefine)
      BY <3>1 DEF GoodLogger, LoggerRec, LogDefine
    <3>3. Len(lg.appenders) = Len(d.appenders)
      BY <1>5, <2>2 DEF Matches
    <3>4. DOMAIN lg.appenders = DOMAIN d.appenders
      BY <3>2, <3>3, LenProperties
    <3> HIDE DEF lg
    <3>5. Matches(lg, d)
      BY <1>5, <2>2 DEF lg
    <3> QED BY <2>2, <3>1, <3>3, <3>4, <3>5, SetFormatterGood DEF Matches
  <2> QED BY <2>1, <2>2
<1>6. ASSUME NEW v, LogDefines(v), Follows(ls, v) PROVE Follows(after, v)
  BY <1>4, <1>5, <1>6 DEF Follows, LogDefines
<1>7. ASSUME NEW S, Silent(ls, S) PROVE Silent(after, S)
  BY <1>4, <1>7 DEF Silent
<1> QED BY <1>3, <1>6, <1>7 DEF after, all

----------------------------------------------------------------------------
(* The inductive invariant *)

TypeInv ==
    /\ m_val = [x \in Vars |-> m_val[x]] /\ LogDefines(m_val[Logs])
    /\ work \in [Threads -> Seq(Entries)]
    /\ pc \in [Threads -> {"idle", "calling", "assign"}]
    /\ val = [t \in Threads |-> val[t]]
    /\ solo \in [Threads -> BOOLEAN]
    /\ GoodLoggers(loggers)

(* A thread inside setValue has a pair of a document in hand. *)
SetInv == \A t \in Threads : pc[t] # "idle" =>
    work[t] # <<>> /\ Name(t) \in Vars /\ Text(t).ok /\ val[t] = Text(t).value

(* Two that set the same variable know of each other. *)
SoloInv == \A t, u \in Threads, x \in Vars :
    t # u /\ Setting(t, x) /\ Setting(u, x) => ~solo[t] /\ ~solo[u]

(* Called and not yet assigned. *)
Called(t, x) == pc[t] = "assign" /\ Name(t) = x

(* The copies follow the variable when it is quiet; before, they are ahead *)
(* of it with the value that a thread has called the listeners with.       *)
FollowInv ==
    /\ Quiet(Logs) => Follows(loggers, m_val[Logs])
    /\ \A t \in Threads : Called(t, Logs) /\ solo[t] => Follows(loggers, val[t])
CacheInv ==
    /\ Quiet(Size) => cache = m_val[Size]
    /\ \A t \in Threads : Called(t, Size) /\ solo[t] => cache = val[t]

(* As long as calls for "logs" have never overlapped, all that was defined *)
(* at some time and is not in the last value called is silent.             *)
NeverMixed == Logs \notin overlapped /\ \A t \in Threads : Setting(t, Logs) => solo[t]
SilentInv == NeverMixed =>
    /\ (\A t \in Threads : ~Called(t, Logs)) => Silent(loggers, ever \ Names(m_val[Logs]))
    /\ \A t \in Threads : Called(t, Logs) => Silent(loggers, ever \ Names(val[t]))

IndInv == TypeInv /\ SetInv /\ SoloInv /\ FollowInv /\ CacheInv /\ SilentInv

----------------------------------------------------------------------------
(* Initial states *)

(* The root logger that LoggerManager makes is in order. *)
LEMMA InitLoggersGood == GoodLoggers(InitLoggers)
<1> DEFINE ap == [type |-> "stdout", level |-> DEBUG, formatter |-> NoFormat, own |-> FALSE]
           ad == [type |-> "stdout", level |-> DEBUG, formatter |-> Default, own |-> FALSE]
           lg == [level |-> DEBUG, formatter |-> Default, appenders |-> <<ad>>]
<1>1. Adopted(NewLogger, ap) = ad
  BY DEF Adopted, NewLogger
<1>2. ad \in Appender
  BY DEF Appender, Texts, DEBUG
<1> HIDE DEF ap, ad
<1>3. <<ad>> \in Seq(Appender) /\ Len(<<ad>>) = 1 /\ <<ad>>[1] = ad /\ DOMAIN <<ad>> = {1} /\ Append(<<>>, ad) = <<ad>>
  BY <1>2
<1>4. addAppender(NewLogger, ap) = lg
  <2>1. NewLogger = [level |-> DEBUG, formatter |-> Default, appenders |-> <<>>]
    BY DEF NewLogger
  <2> QED BY <1>1, <1>3, <2>1 DEF addAppender
<1>5. lg \in LoggerRec
  <2>1. Default \in Texts
    BY DEF Texts
  <2> QED BY <1>3, <2>1 DEF LoggerRec, DEBUG
<1>6. Agrees(lg)
  <2>1. ~ad.own /\ ad.formatter = Default
    BY DEF ad
  <2> QED BY <1>3, <2>1 DEF Agrees, Default, Bad, NoFormat
<1> HIDE DEF lg
<1>7. InitLoggers = [n \in {Root} |-> lg]
  BY <1>4 DEF InitLoggers, ap
<1> QED BY <1>5, <1>6, <1>7 DEF GoodLoggers, GoodLogger

(* The invariant holds before anything is loaded. *)
LEMMA InitIndInv == Init => IndInv
<1> SUFFICES ASSUME Init PROVE IndInv
  OBVIOUS
<1>1. Logs \in Vars /\ Size \in Vars /\ Logs # Size
  BY DEF Vars, Logs, Size
<1>2. m_val[Logs] = {} /\ m_val[Size] = 0 /\ LogDefines(m_val[Logs])
  BY <1>1 DEF Init, LogDefines
<1>3. \A t \in Threads : pc[t] = "idle"
  BY DEF Init
<1>4. TypeInv
  BY <1>1, <1>2, InitLoggersGood DEF Init, TypeInv
<1>5. SetInv /\ SoloInv
  BY <1>3 DEF SetInv, SoloInv, Setting
<1>6. FollowInv
  BY <1>2, <1>3 DEF FollowInv, Follows, Called
<1>7. CacheInv
  BY <1>2, <1>3 DEF CacheInv, Called, Init
<1>8. SilentInv
  BY <1>3 DEF SilentInv, Silent, Called, Init
<1> QED BY <1>4, <1>5, <1>6, <1>7, <1>8 DEF IndInv

----------------------------------------------------------------------------
(* Steps *)

(* A document's pair for "logs" that converts is a value of "logs". *)
LEMMA ValueInHand ==
    ASSUME TypeInv, NEW t \in Threads, work[t] # <<>>
    PROVE  /\ Head(work[t]) \in Entries
           /\ Name(t) = Logs /\ Text(t).ok => LogDefines(Text(t).value)
           /\ Tail(work[t]) \in Seq(Entries)
<1>1. work[t] \in Seq(Entries)
  BY DEF TypeInv
<1>2. Head(work[t]) \in Entries /\ Tail(work[t]) \in Seq(Entries)
  BY <1>1, HeadTailProperties
<1> QED BY <1>2, DocumentsAssumption DEF Name, Text

(* A step of a thread outside setValue that changes its list alone. *)
LEMMA OutsideStep ==
    ASSUME IndInv, NEW t \in Threads, pc[t] = "idle", NEW w \in Seq(Entries),
           work' = [work EXCEPT ![t] = w],
           UNCHANGED <<m_val, pc, val, solo, mixed, overlapped, loggers, cache, ever>>
    PROVE  IndInv'
<1>1. TypeInv'
  BY DEF IndInv, TypeInv
<1>2. \A u \in Threads : pc[u] # "idle" => work'[u] = work[u]
  BY DEF IndInv, TypeInv
<1>3. \A u \in Threads : pc'[u] = pc[u] /\ val'[u] = val[u] /\ solo'[u] = solo[u]
  OBVIOUS
<1>4. SetInv'
  BY <1>2, <1>3 DEF IndInv, SetInv, Name, Text
<1>5. \A u \in Threads : \A x : Setting(u, x)' <=> Setting(u, x)
  BY <1>2, <1>3 DEF Setting, Name
<1>6. \A u \in Threads : \A x : Called(u, x)' <=> Called(u, x)
  BY <1>2, <1>3 DEF Called, Name
<1>7. SoloInv'
  BY <1>3, <1>5 DEF IndInv, SoloInv
<1>8. (Quiet(Logs)' <=> Quiet(Logs)) /\ (Quiet(Size)' <=> Quiet(Size))
  BY <1>5 DEF Quiet
<1>9. FollowInv'
  BY <1>3, <1>6, <1>8 DEF IndInv, FollowInv
<1>10. CacheInv'
  BY <1>3, <1>6, <1>8 DEF IndInv, CacheInv
<1>11. SilentInv'
  BY <1>3, <1>5, <1>6 DEF IndInv, SilentInv, NeverMixed
<1> QED BY <1>1, <1>4, <1>7, <1>9, <1>10, <1>11 DEF IndInv

(* Config::LodeFromYaml *)
LEMMA LodeFromYamlStep ==
    ASSUME IndInv, NEW t \in Threads, LodeFromYaml(t)
    PROVE  IndInv'
<1>1. work[t] = <<>>
  BY DEF LodeFromYaml
<1>2. pc[t] = "idle"
  BY <1>1 DEF IndInv, SetInv
<1>3. PICK doc \in Documents :
        work' = [work EXCEPT ![t] = IF \A i \in DOMAIN doc : ValidName(doc[i][1]) THEN doc ELSE <<>>]
  BY DEF LodeFromYaml
<1> DEFINE w == IF \A i \in DOMAIN doc : ValidName(doc[i][1]) THEN doc ELSE <<>>
<1>4. w \in Seq(Entries)
  BY DocumentsAssumption, EmptySeq
<1> HIDE DEF w
<1>5. work' = [work EXCEPT ![t] = w]
  BY <1>3 DEF w
<1>6. UNCHANGED <<m_val, pc, val, solo, mixed, overlapped, loggers, cache, ever>>
  BY DEF LodeFromYaml
<1> QED BY <1>2, <1>4, <1>5, <1>6, OutsideStep

(* A pair that sets nothing is passed over. *)
LEMMA SkipStep ==
    ASSUME IndInv, NEW t \in Threads, Skip(t)
    PROVE  IndInv'
<1>1. pc[t] = "idle" /\ work[t] # <<>>
  BY DEF Skip
<1>2. Tail(work[t]) \in Seq(Entries)
  BY <1>1, ValueInHand DEF IndInv
<1>3. work' = [work EXCEPT ![t] = Tail(work[t])]
  BY DEF Skip, IndInv, TypeInv
<1>4. UNCHANGED <<m_val, pc, val, solo, mixed, overlapped, loggers, cache, ever>>
  BY DEF Skip
<1> QED BY <1>1, <1>2, <1>3, <1>4, OutsideStep

(* setValue finds another value under the read lock: the variable is no    *)
(* longer quiet, and calls that meet it stop being solo.                   *)
LEMMA SetBeginStep ==
    ASSUME IndInv, NEW t \in Threads, SetBegin(t)
    PROVE  IndInv'
<1> DEFINE others == {u \in Threads \ {t} : Setting(u, Name(t))}
<1>1. /\ pc[t] = "idle" /\ work[t] # <<>> /\ Name(t) \in Vars /\ Text(t).ok
      /\ pc' = [pc EXCEPT ![t] = "calling"] /\ val' = [val EXCEPT ![t] = Text(t).value]
      /\ solo' = [u \in Threads |-> IF u = t THEN others = {} ELSE solo[u] /\ u \notin others]
      /\ UNCHANGED <<m_val, work, mixed, overlapped, loggers, cache, ever>>
  BY DEF SetBegin
<1>2. /\ pc \in [Threads -> {"idle", "calling", "assign"}] /\ solo \in [Threads -> BOOLEAN]
      /\ val = [u \in Threads |-> val[u]]
  BY DEF IndInv, TypeInv
<1>3. /\ pc'[t] = "calling" /\ val'[t] = Text(t).value
      /\ \A u \in Threads \ {t} : pc'[u] = pc[u] /\ val'[u] = val[u]
  BY <1>1, <1>2
<1>4. /\ solo'[t] = (others = {})
      /\ \A u \in Threads \ {t} : solo'[u] = (solo[u] /\ ~Setting(u, Name(t)))
  BY <1>1, <1>2
<1>5. \A u \in Threads : \A x : /\ Name(u)' = Name(u) /\ Text(u)' = Text(u)
                                /\ Called(u, x)' <=> Called(u, x)
                                /\ Setting(u, x)' <=> Setting(u, x) \/ (u = t /\ x = Name(t))
  BY <1>1, <1>3 DEF Called, Setting, Name, Text
<1>6. TypeInv'
  <2>1. pc' \in [Threads -> {"idle", "calling", "assign"}] /\ val' = [u \in Threads |-> val'[u]]
    BY <1>1, <1>2
  <2>2. solo' \in [Threads -> BOOLEAN]
    BY <1>1, <1>2
  <2> QED BY <1>1, <2>1, <2>2 DEF IndInv, TypeInv
<1>7. SetInv'
  BY <1>1, <1>3, <1>5 DEF IndInv, SetInv
<1>8. SoloInv'
  <2> SUFFICES ASSUME NEW a \in Threads, NEW b \in Threads, NEW x \in Vars, a # b,
                      Setting(a, x)', Setting(b, x)'
               PROVE  ~solo'[a]
    BY DEF SoloInv
  <2>1. CASE a = t
    <3>1. x = Name(t)
      BY <1>1, <1>5, <2>1 DEF Setting
    <3>2. b \in others
      BY <1>5, <2>1, <3>1
    <3> QED BY <1>4, <2>1, <3>2
  <2>2. CASE a # t /\ b = t
    <3>1. x = Name(t)
      BY <1>1, <1>5, <2>2 DEF Setting
    <3>2. Setting(a, Name(t))
      BY <1>5, <2>2, <3>1
    <3> QED BY <1>4, <2>2, <3>2
  <2>3. CASE a # t /\ b # t
    <3>1. ~solo[a]
      BY <1>5, <2>3 DEF IndInv, SoloInv
    <3> QED BY <1>4, <2>3, <3>1
  <2> QED BY <2>1, <2>2, <2>3
<1> HIDE DEF others
<1>9. \A x : Quiet(x)' => Quiet(x)
  BY <1>1, <1>5 DEF Quiet
<1>10. \A u \in Threads : \A x : Called(u, x) /\ solo'[u] => solo[u] /\ u # t /\ val'[u] = val[u]
  BY <1>1, <1>3, <1>4 DEF Called
<1>11. FollowInv'
  BY <1>1, <1>5, <1>9, <1>10 DEF IndInv, FollowInv
<1>12. CacheInv'
  BY <1>1, <1>5, <1>9, <1>10 DEF IndInv, CacheInv
<1>13. NeverMixed' => NeverMixed
  <2>1. ~Setting(t, Logs)
    BY <1>1 DEF Setting
  <2> QED BY <1>1, <1>4, <1>5, <2>1 DEF NeverMixed
<1>14. SilentInv'
  <2>1. \A u \in Threads : Called(u, Logs) => val'[u] = val[u]
    BY <1>1, <1>3 DEF Called
  <2> QED BY <1>1, <1>5, <1>13, <2>1 DEF IndInv, SilentInv
<1> QED BY <1>6, <1>7, <1>8, <1>11, <1>12, <1>14 DEF IndInv

(* What a call of the listeners leaves alone. *)
LEMMA CallFrame ==
    ASSUME IndInv, NEW t \in Threads, pc[t] = "calling", pc' = [pc EXCEPT ![t] = "assign"],
           UNCHANGED <<m_val, work, val, solo, mixed, overlapped>>, GoodLoggers(loggers')
    PROVE  /\ TypeInv' /\ SetInv' /\ SoloInv'
           /\ \A u \in Threads : \A x : Setting(u, x)' <=> Setting(u, x)
           /\ \A u \in Threads : \A x : Called(u, x)' <=> Called(u, x) \/ (u = t /\ x = Name(t))
           /\ Setting(t, Name(t)) /\ \A x : Quiet(x)' => Quiet(x) /\ x # Name(t)
           /\ NeverMixed' => NeverMixed
<1>1. pc \in [Threads -> {"idle", "calling", "assign"}]
  BY DEF IndInv, TypeInv
<1>2. pc'[t] = "assign" /\ \A u \in Threads \ {t} : pc'[u] = pc[u]
  BY <1>1
<1>3. TypeInv'
  <2>1. pc' \in [Threads -> {"idle", "calling", "assign"}]
    BY <1>1
  <2> QED BY <2>1 DEF IndInv, TypeInv
<1>4. \A u \in Threads : Name(u)' = Name(u) /\ Text(u)' = Text(u)
  BY DEF Name, Text
<1>5. SetInv'
  BY <1>2, <1>4 DEF IndInv, SetInv
<1>6. \A u \in Threads : \A x : Setting(u, x)' <=> Setting(u, x)
  BY <1>2, <1>4 DEF Setting
<1>7. \A u \in Threads : \A x : Called(u, x)' <=> Called(u, x) \/ (u = t /\ x = Name(t))
  BY <1>2, <1>4 DEF Called
<1>8. SoloInv'
  BY <1>6 DEF IndInv, SoloInv
<1>9. Setting(t, Name(t))
  BY DEF Setting
<1>10. \A x : Quiet(x)' => Quiet(x) /\ x # Name(t)
  BY <1>6, <1>9 DEF Quiet
<1>11. NeverMixed' => NeverMixed
  BY <1>6 DEF NeverMixed
<1> QED BY <1>3, <1>5, <1>6, <1>7, <1>8, <1>9, <1>10, <1>11

(* Another thread that sets the same variable is not solo, nor is this one. *)
LEMMA OthersNotSolo ==
    ASSUME IndInv, NEW t \in Threads, NEW u \in Threads, t # u, NEW x \in Vars,
           Setting(t, x), Setting(u, x)
    PROVE  ~solo[t] /\ ~solo[u]
  BY DEF IndInv, SoloInv

(* The listener that keeps a number is called. *)
LEMMA CallSizeStep ==
    ASSUME IndInv, NEW t \in Threads, pc[t] = "calling", Name(t) = Size,
           cache' = val[t], pc' = [pc EXCEPT ![t] = "assign"],
           UNCHANGED <<m_val, work, val, solo, mixed, overlapped, loggers, ever>>
    PROVE  IndInv'
<1>1. GoodLoggers(loggers')
  BY DEF IndInv, TypeInv
<1>2. Size # Logs /\ Size \in Vars
  BY DEF Size, Logs, Vars
<1>3. /\ TypeInv' /\ SetInv' /\ SoloInv'
      /\ \A u \in Threads : \A x : Called(u, x)' <=> Called(u, x) \/ (u = t /\ x = Name(t))
      /\ Setting(t, Name(t)) /\ \A x : Quiet(x)' => Quiet(x) /\ x # Name(t)
      /\ NeverMixed' => NeverMixed
  BY <1>1, CallFrame
<1>4. FollowInv'
  BY <1>2, <1>3 DEF IndInv, FollowInv
<1>5. CacheInv'
  <2> SUFFICES ASSUME NEW u \in Threads, Called(u, Size)', solo[u] PROVE cache' = val[u]
    BY <1>3 DEF CacheInv
  <2>1. CASE u # t
    <3>1. Setting(u, Size)
      BY <1>3, <2>1 DEF Called, Setting
    <3> QED BY <1>2, <1>3, <2>1, <3>1, OthersNotSolo
  <2> QED BY <2>1
<1>6. SilentInv'
  BY <1>2, <1>3 DEF IndInv, SilentInv
<1> QED BY <1>3, <1>4, <1>5, <1>6 DEF IndInv

(* LogIniter's listener is called, and does not meet an unchanged definition. *)
LEMMA CallLogsStep ==
    ASSUME IndInv, NEW t \in Threads, pc[t] = "calling", Name(t) = Logs,
           loggers' = Listener(loggers, m_val[Logs], val[t]),
           ever' = ever \cup Names(val[t]), pc' = [pc EXCEPT ![t] = "assign"],
           UNCHANGED <<m_val, work, val, solo, mixed, overlapped, cache>>
    PROVE  IndInv'
<1> PICK old, new, ls : old = m_val[Logs] /\ new = val[t] /\ ls = loggers
  OBVIOUS
<1>1. LogDefines(new)
  <2>1. work[t] # <<>> /\ Text(t).ok /\ val[t] = Text(t).value
    BY DEF IndInv, SetInv
  <2> QED BY <2>1, ValueInHand DEF IndInv
<1>2. GoodLoggers(ls)
  BY DEF IndInv, TypeInv
<1>3. /\ GoodLoggers(loggers')
      /\ Follows(loggers', new)
      /\ Silent(loggers', Names(old) \ Names(new))
      /\ \A S : S \cap (Names(old) \cup Names(new)) = {} /\ Silent(ls, S) => Silent(loggers', S)
  <2>1. LET after == Listener(ls, old, new) IN
           /\ GoodLoggers(after)
           /\ Follows(after, new)
           /\ Silent(after, Names(old) \ Names(new))
           /\ \A S : S \cap (Names(old) \cup Names(new)) = {} /\ Silent(ls, S) => Silent(after, S)
    BY <1>1, <1>2, ListenerGood
  <2> QED BY <2>1
<1>4. Size # Logs /\ Logs \in Vars
  BY DEF Size, Logs, Vars
<1>5. /\ TypeInv' /\ SetInv' /\ SoloInv'
      /\ \A u \in Threads : \A x : Setting(u, x)' <=> Setting(u, x)
      /\ \A u \in Threads : \A x : Called(u, x)' <=> Called(u, x) \/ (u = t /\ x = Name(t))
      /\ Setting(t, Name(t)) /\ \A x : Quiet(x)' => Quiet(x) /\ x # Name(t)
      /\ NeverMixed' => NeverMixed
  BY <1>3, CallFrame
<1>6. \A u \in Threads : Called(u, Logs)' /\ solo[u] => u = t
  <2> SUFFICES ASSUME NEW u \in Threads, Called(u, Logs)', solo[u], u # t PROVE FALSE
    OBVIOUS
  <2>1. Setting(u, Logs)
    BY <1>5 DEF Called, Setting
  <2> QED BY <1>4, <1>5, <2>1, OthersNotSolo
<1>7. FollowInv'
  BY <1>3, <1>5, <1>6 DEF FollowInv
<1>8. CacheInv'
  BY <1>4, <1>5 DEF IndInv, CacheInv
<1>9. SilentInv'
  <2> SUFFICES ASSUME NeverMixed' PROVE SilentInv'
    BY DEF SilentInv
  <2>1. NeverMixed /\ solo[t]
    BY <1>5 DEF NeverMixed
  <2>2. \A u \in Threads : ~Called(u, Logs)
    <3> SUFFICES ASSUME NEW u \in Threads, Called(u, Logs) PROVE FALSE
      OBVIOUS
    <3>1. u # t /\ Setting(u, Logs)
      BY DEF Called, Setting
    <3> QED BY <1>4, <1>5, <2>1, <3>1, OthersNotSolo
  <2>3. Silent(ls, ever \ Names(old))
    BY <2>1, <2>2 DEF IndInv, SilentInv
  <2> DEFINE S == (ever \ Names(old)) \ Names(new)
  <2>4. Silent(ls, S) /\ S \cap (Names(old) \cup Names(new)) = {}
    BY <2>3 DEF Silent
  <2>5. Silent(loggers', S)
    BY <1>3, <2>4
  <2>6. Silent(loggers', ever' \ Names(new))
    BY <1>3, <2>5 DEF Silent
  <2>7. \A u \in Threads : Called(u, Logs)' => u = t
    BY <1>5, <2>2
  <2>8. Called(t, Logs)'
    BY <1>5
  <2> QED BY <2>6, <2>7, <2>8 DEF SilentInv
<1> QED BY <1>5, <1>7, <1>8, <1>9 DEF IndInv

(* The listener is called.  One that meets an unchanged definition uses a  *)
(* null logger: the program is gone, and nothing else changes.             *)
LEMMA CallListenersStep ==
    ASSUME IndInv, NEW t \in Threads, CallListeners(t)
    PROVE  IndInv'
<1>1. pc[t] = "calling" /\ UNCHANGED <<m_val, work, val, solo, mixed, overlapped>>
  BY DEF CallListeners
<1>2. CASE Name(t) = Size
  <2>1. cache' = val[t] /\ pc' = [pc EXCEPT ![t] = "assign"] /\ UNCHANGED <<loggers, ever>>
    BY <1>2 DEF CallListeners, Size, Logs
  <2> QED BY <1>1, <1>2, <2>1, CallSizeStep
<1>3. CASE Name(t) = Logs /\ Kept(m_val[Logs], val[t]) = {}
  <2>1. /\ loggers' = Listener(loggers, m_val[Logs], val[t]) /\ ever' = ever \cup Names(val[t])
        /\ pc' = [pc EXCEPT ![t] = "assign"] /\ UNCHANGED cache
    BY <1>3 DEF CallListeners, Size, Logs
  <2> QED BY <1>1, <1>3, <2>1, CallLogsStep
<1>4. CASE Name(t) = Logs /\ Kept(m_val[Logs], val[t]) # {}
  <2>1. UNCHANGED <<loggers, cache, pc, ever>>
    BY <1>4 DEF CallListeners, Size, Logs
  <2>2. \A u \in Threads : \A x : /\ (Setting(u, x)' <=> Setting(u, x)) /\ (Called(u, x)' <=> Called(u, x))
                                  /\ Name(u)' = Name(u) /\ Text(u)' = Text(u)
    BY <1>1, <2>1 DEF Setting, Called, Name, Text
  <2>3. TypeInv'
    BY <1>1, <2>1 DEF IndInv, TypeInv
  <2>4. SetInv' /\ SoloInv'
    BY <1>1, <2>1, <2>2 DEF IndInv, SetInv, SoloInv
  <2>5. FollowInv'
    BY <1>1, <2>1, <2>2 DEF IndInv, FollowInv, Quiet
  <2>6. CacheInv'
    BY <1>1, <2>1, <2>2 DEF IndInv, CacheInv, Quiet
  <2>7. SilentInv'
    BY <1>1, <2>1, <2>2 DEF IndInv, SilentInv, NeverMixed
  <2> QED BY <2>3, <2>4, <2>5, <2>6, <2>7 DEF IndInv
<1>5. Name(t) \in {Size, Logs}
  BY <1>1 DEF IndInv, SetInv, Vars
<1> QED BY <1>2, <1>3, <1>4, <1>5

(* setValue writes the value under the write lock: the listeners have it    *)
(* already if nothing came between, and otherwise the variable is mixed.    *)
LEMMA AssignStep ==
    ASSUME IndInv, NEW t \in Threads, Assign(t)
    PROVE  IndInv'
<1> PICK x, v : x = Name(t) /\ v = val[t]
  OBVIOUS
<1>1. /\ pc[t] = "assign"
      /\ m_val' = [m_val EXCEPT ![x] = v]
      /\ mixed' = IF solo[t] THEN mixed \ {x} ELSE mixed \cup {x}
      /\ overlapped' = overlapped \cup mixed'
      /\ pc' = [pc EXCEPT ![t] = "idle"] /\ val' = [val EXCEPT ![t] = 0]
      /\ solo' = [solo EXCEPT ![t] = TRUE] /\ work' = [work EXCEPT ![t] = Tail(@)]
      /\ UNCHANGED <<loggers, cache, ever>>
  BY DEF Assign
<1>2. /\ pc \in [Threads -> {"idle", "calling", "assign"}] /\ solo \in [Threads -> BOOLEAN]
      /\ val = [u \in Threads |-> val[u]] /\ m_val = [y \in Vars |-> m_val[y]]
      /\ work \in [Threads -> Seq(Entries)] /\ LogDefines(m_val[Logs])
  BY DEF IndInv, TypeInv
<1>3. work[t] # <<>> /\ x \in Vars /\ Text(t).ok /\ v = Text(t).value
  BY <1>1 DEF IndInv, SetInv
<1>4. Tail(work[t]) \in Seq(Entries) /\ (x = Logs => LogDefines(v))
  BY <1>3, ValueInHand DEF IndInv
<1>5. /\ pc'[t] = "idle" /\ solo'[t] = TRUE
      /\ \A u \in Threads \ {t} : /\ pc'[u] = pc[u] /\ val'[u] = val[u] /\ solo'[u] = solo[u]
                                  /\ work'[u] = work[u]
  BY <1>1, <1>2
<1>6. m_val'[x] = v /\ \A y \in Vars \ {x} : m_val'[y] = m_val[y]
  BY <1>1, <1>2, <1>3
<1>7. Logs \in Vars /\ Size \in Vars
  BY DEF Vars
<1>8. TypeInv'
  <2>1. pc' \in [Threads -> {"idle", "calling", "assign"}] /\ val' = [u \in Threads |-> val'[u]]
    BY <1>1, <1>2
  <2>2. solo' \in [Threads -> BOOLEAN] /\ work' \in [Threads -> Seq(Entries)]
    BY <1>1, <1>2, <1>4
  <2>3. m_val' = [y \in Vars |-> m_val'[y]] /\ LogDefines(m_val'[Logs])
    BY <1>1, <1>2, <1>4, <1>6, <1>7
  <2>4. GoodLoggers(loggers')
    BY <1>1 DEF IndInv, TypeInv
  <2> QED BY <2>1, <2>2, <2>3, <2>4 DEF TypeInv
<1>9. \A u \in Threads \ {t} : \A y : /\ Name(u)' = Name(u) /\ Text(u)' = Text(u)
                                      /\ Setting(u, y)' <=> Setting(u, y)
                                      /\ Called(u, y)' <=> Called(u, y)
  BY <1>5 DEF Name, Text, Setting, Called
<1>10. \A y : ~Setting(t, y)' /\ ~Called(t, y)'
  BY <1>5 DEF Setting, Called
<1>11. SetInv'
  BY <1>5, <1>9 DEF IndInv, SetInv
<1>12. SoloInv'
  BY <1>5, <1>9, <1>10 DEF IndInv, SoloInv
<1>13. Called(t, x) /\ Setting(t, x) /\ \A y : y # x => ~Called(t, y) /\ ~Setting(t, y)
  BY <1>1 DEF Called, Setting
<1>14. \A y : y # x => (Quiet(y)' <=> Quiet(y))
  BY <1>1, <1>9, <1>10, <1>13 DEF Quiet
<1>15. Quiet(x)' => solo[t]
  BY <1>1 DEF Quiet
<1>16. FollowInv'
  <2>1. \A u \in Threads : Called(u, Logs)' /\ solo'[u] => Follows(loggers', val'[u])
    BY <1>1, <1>5, <1>9, <1>10 DEF IndInv, FollowInv
  <2>2. Quiet(Logs)' => Follows(loggers', m_val'[Logs])
    BY <1>1, <1>6, <1>7, <1>13, <1>14, <1>15 DEF IndInv, FollowInv
  <2> QED BY <2>1, <2>2 DEF FollowInv
<1>17. CacheInv'
  <2>1. \A u \in Threads : Called(u, Size)' /\ solo'[u] => cache' = val'[u]
    BY <1>1, <1>5, <1>9, <1>10 DEF IndInv, CacheInv
  <2>2. Quiet(Size)' => cache' = m_val'[Size]
    BY <1>1, <1>6, <1>7, <1>13, <1>14, <1>15 DEF IndInv, CacheInv
  <2> QED BY <2>1, <2>2 DEF CacheInv
<1>18. SilentInv'
  <2> SUFFICES ASSUME NeverMixed' PROVE SilentInv'
    BY DEF SilentInv
  <2>1. Logs \notin overlapped /\ (x = Logs => solo[t])
    BY <1>1 DEF NeverMixed
  <2>2. NeverMixed
    <3> SUFFICES ASSUME NEW u \in Threads, Setting(u, Logs) PROVE solo[u]
      BY <2>1 DEF NeverMixed
    <3>1. CASE u = t
      BY <1>13, <2>1, <3>1
    <3>2. CASE u # t
      BY <1>5, <1>9, <3>2 DEF NeverMixed
    <3> QED BY <3>1, <3>2
  <2>3. /\ (\A u \in Threads : ~Called(u, Logs)) => Silent(loggers, ever \ Names(m_val[Logs]))
        /\ \A u \in Threads : Called(u, Logs) => Silent(loggers, ever \ Names(val[u]))
    BY <2>2 DEF IndInv, SilentInv
  <2>4. \A u \in Threads : Called(u, Logs)' => Silent(loggers', ever' \ Names(val'[u]))
    BY <1>1, <1>5, <1>9, <1>10, <2>3
  <2>5. (\A u \in Threads : ~Called(u, Logs)') => Silent(loggers', ever' \ Names(m_val'[Logs]))
    <3>1. CASE x = Logs
      BY <1>1, <1>6, <1>13, <2>3, <3>1
    <3>2. CASE x # Logs
      BY <1>1, <1>6, <1>7, <1>9, <1>13, <2>3, <3>2
    <3> QED BY <3>1, <3>2
  <2> QED BY <2>4, <2>5 DEF SilentInv
<1> QED BY <1>8, <1>11, <1>12, <1>16, <1>17, <1>18 DEF IndInv

(* The application sets a pattern. *)
LEMMA SetFormatterStep ==
    ASSUME IndInv, NEW name, NEW f \in {"short", Bad}, SetFormatter(name, f)
    PROVE  IndInv'
<1> PICK ls : ls = loggers
  OBVIOUS
<1>1. /\ loggers' = [getLogger(ls, name) EXCEPT ![name] = setFormatter(@, f)]
      /\ UNCHANGED <<m_val, work, pc, val, solo, mixed, overlapped, cache, ever>>
  BY DEF SetFormatter
<1>2. f \in Texts /\ f # NoFormat
  BY DEF Texts, NoFormat, Bad
<1>3. GoodLoggers(ls)
  BY DEF IndInv, TypeInv
<1>4. /\ GoodLoggers(loggers')
      /\ \A v : LogDefines(v) /\ Follows(ls, v) => Follows(loggers', v)
      /\ \A S : Silent(ls, S) => Silent(loggers', S)
  <2>1. LET after == [getLogger(ls, name) EXCEPT ![name] = setFormatter(@, f)] IN
           /\ GoodLoggers(after)
           /\ \A v : LogDefines(v) /\ Follows(ls, v) => Follows(after, v)
           /\ \A S : Silent(ls, S) => Silent(after, S)
    BY <1>2, <1>3, FormatGood
  <2> QED BY <1>1, <2>1
<1>5. \A u \in Threads : \A x : /\ (Setting(u, x)' <=> Setting(u, x)) /\ (Called(u, x)' <=> Called(u, x))
                                /\ Name(u)' = Name(u) /\ Text(u)' = Text(u)
  BY <1>1 DEF Setting, Called, Name, Text
<1>6. TypeInv'
  BY <1>1, <1>4 DEF IndInv, TypeInv
<1>7. SetInv' /\ SoloInv'
  BY <1>1, <1>5 DEF IndInv, SetInv, SoloInv
<1>8. \A u \in Threads : Called(u, Logs) => LogDefines(val[u])
  <2> SUFFICES ASSUME NEW u \in Threads, Called(u, Logs) PROVE LogDefines(val[u])
    OBVIOUS
  <2>1. work[u] # <<>> /\ Text(u).ok /\ val[u] = Text(u).value /\ Name(u) = Logs
    BY DEF IndInv, SetInv, Called
  <2> QED BY <2>1, ValueInHand DEF IndInv
<1>9. FollowInv'
  <2>1. Quiet(Logs)' => Quiet(Logs)
    BY <1>1, <1>5 DEF Quiet
  <2>2. LogDefines(m_val[Logs])
    BY DEF IndInv, TypeInv
  <2>3. Quiet(Logs)' => Follows(loggers', m_val'[Logs])
    BY <1>1, <1>4, <2>1, <2>2 DEF IndInv, FollowInv
  <2>4. \A u \in Threads : Called(u, Logs)' /\ solo'[u] => Follows(loggers', val'[u])
    BY <1>1, <1>4, <1>5, <1>8 DEF IndInv, FollowInv
  <2> QED BY <2>3, <2>4 DEF FollowInv
<1>10. CacheInv'
  BY <1>1, <1>5 DEF IndInv, CacheInv, Quiet
<1>11. SilentInv'
  <2>1. NeverMixed' => NeverMixed
    BY <1>1, <1>5 DEF NeverMixed
  <2> QED BY <1>1, <1>4, <1>5, <2>1 DEF IndInv, SilentInv
<1> QED BY <1>6, <1>7, <1>9, <1>10, <1>11 DEF IndInv

(* Nothing changes. *)
LEMMA ConfigStutter ==
    ASSUME IndInv, UNCHANGED vars
    PROVE  IndInv'
  BY DEF IndInv, vars, TypeInv, SetInv, SoloInv, FollowInv, CacheInv, SilentInv, NeverMixed, Called,
         Setting, Quiet, Name, Text

----------------------------------------------------------------------------
(* The results *)

(* The invariant of loading, listening and logging, for any threads and    *)
(* documents: a call of setValue that no other on the same variable has    *)
(* met leaves what the listeners keep equal to what it assigns.            *)
THEOREM ConfigInductive == Spec => []IndInv
<1>1. IndInv /\ [Next]_vars => IndInv'
  <2> SUFFICES ASSUME IndInv, [Next]_vars PROVE IndInv'
    OBVIOUS
  <2>1. CASE UNCHANGED vars
    BY <2>1, ConfigStutter
  <2>2. ASSUME NEW t \in Threads, LodeFromYaml(t) \/ Set(t) PROVE IndInv'
    BY <2>2, LodeFromYamlStep, SkipStep, SetBeginStep, CallListenersStep, AssignStep DEF Set
  <2>3. ASSUME NEW name \in {Root, "system"}, NEW f \in {"short", Bad}, SetFormatter(name, f) PROVE IndInv'
    BY <2>3, SetFormatterStep
  <2> QED BY <2>1, <2>2, <2>3 DEF Next
<1> QED BY <1>1, InitIndInv, PTL DEF Spec

(* In every state that the invariant allows, the listeners' copies follow. *)
LEMMA FollowFromInv == IndInv => ListenersFollow
<1> SUFFICES ASSUME IndInv PROVE ListenersFollow
  OBVIOUS
<1>1. LoggersFollow
  BY DEF IndInv, FollowInv, Follows, Matches, LoggersFollow
<1>2. CacheFollows
  BY DEF IndInv, CacheInv, CacheFollows
<1>3. DeletedIsSilent
  <2> SUFFICES ASSUME Quiet(Logs), Logs \notin overlapped, NEW n \in ever \ Names(m_val[Logs])
               PROVE  log(loggers, n, FATAL) = {}
    BY DEF DeletedIsSilent
  <2>1. NeverMixed /\ \A t \in Threads : ~Called(t, Logs)
    BY DEF NeverMixed, Quiet, Setting, Called
  <2>2. Silent(loggers, ever \ Names(m_val[Logs]))
    BY <2>1 DEF IndInv, SilentInv
  <2>3. loggers[n].level = 100
    BY <2>2 DEF Silent, Deleted
  <2> QED BY <2>3 DEF log, FATAL
<1> QED BY <1>1, <1>2, <1>3 DEF ListenersFollow

(* What LogIniter's listener and a static copy keep follows the variables  *)
(* for any number of threads that load any documents in any order: loggers *)
(* have the level and appenders of their definitions, the copy of a number *)
(* is the number, and a logger no longer defined writes nothing.           *)
THEOREM ListenersCorrect == Spec => []ListenersFollow
  BY ConfigInductive, FollowFromInv, PTL

(* setFormatter with a pattern, addAppender and the listener never leave   *)
(* an appender with a formatter that is neither its own nor the logger's,  *)
(* nor any with one that is in error.                                      *)
THEOREM FormattersCorrect == Spec => []FormattersFollow
<1>1. IndInv => FormattersFollow
  BY DEF IndInv, TypeInv, GoodLoggers, GoodLogger, Agrees, FormattersFollow
<1> QED BY <1>1, ConfigInductive, PTL

----------------------------------------------------------------------------
(* The generated parsers: callbacks in sequences *)

(* The sequences of callbacks up to a point of a request ... *)
Targets  == {<<"method", "path">> \o q \o <<"uri">> : q \in Optional("query")}
Versions == {u \o g : u \in Targets, g \in Optional("fragment")}
Heads    == {v \o <<"version">> \o h : v \in Versions, h \in Optional("field")}

(* ... of a response and of a chunk. *)
Statuses == {<<"version", "status", "reason">> \o h : h \in Optional("field")}
Chunks   == {<<"chunk_size">> \o h : h \in Optional("field")}

(* Concatenation with an empty sequence and with one element. *)
LEMMA CatFacts ==
    ASSUME NEW s \in Seq(Callbacks)
    PROVE  /\ s \o <<>> = s /\ <<>> \o s = s
           /\ \A a \in Callbacks : /\ s \o <<a>> \in Seq(Callbacks) /\ s \o <<a>> # <<>>
                                   /\ (s \o <<a>>)[Len(s \o <<a>>)] = a
<1>1. s \o <<>> = s /\ <<>> \o s = s
  BY ConcatEmptySeq
<1>2. ASSUME NEW a \in Callbacks
      PROVE  s \o <<a>> \in Seq(Callbacks) /\ s \o <<a>> # <<>> /\ (s \o <<a>>)[Len(s \o <<a>>)] = a
  <2>1. <<a>> \in Seq(Callbacks) /\ Len(<<a>>) = 1 /\ <<a>>[1] = a
    OBVIOUS
  <2>2. /\ s \o <<a>> \in Seq(Callbacks) /\ Len(s \o <<a>>) = Len(s) + 1 /\ Len(s) \in Nat
        /\ (s \o <<a>>)[Len(s) + 1] = a
    BY <2>1, ConcatProperties, LenProperties
  <2>3. Len(<<>>) = 0
    OBVIOUS
  <2> QED BY <2>2, <2>3
<1> QED BY <1>1, <1>2

(* A pair of callbacks. *)
LEMMA CatPair ==
    ASSUME NEW a \in Callbacks, NEW b \in Callbacks
    PROVE  <<a>> \o <<b>> = <<a, b>> /\ <<a, b>> \o <<>> = <<a, b>>
<1>1. <<a>> \in Seq(Callbacks) /\ <<b>> \in Seq(Callbacks) /\ <<a, b>> \in Seq(Callbacks)
  OBVIOUS
<1>2. Len(<<a>>) = 1 /\ Len(<<b>>) = 1 /\ Len(<<a, b>>) = 2
  OBVIOUS
<1>3. /\ <<a>> \o <<b>> \in Seq(Callbacks) /\ Len(<<a>> \o <<b>>) = 2
      /\ (<<a>> \o <<b>>)[1] = a /\ (<<a>> \o <<b>>)[2] = b
  BY <1>1, <1>2, ConcatProperties
<1>4. \A i \in 1 .. 2 : (<<a>> \o <<b>>)[i] = <<a, b>>[i]
  BY <1>3
<1>5. <<a>> \o <<b>> = <<a, b>>
  BY <1>1, <1>2, <1>3, <1>4, SeqEqual
<1> QED BY <1>1, <1>5, ConcatEmptySeq

(* One adds its callback or nothing. *)
LEMMA OneFacts ==
    ASSUME NEW acts
    PROVE  \A a : /\ a \in acts => One(a, acts) = <<a>>
                  /\ a \notin acts => One(a, acts) = <<>>
  BY DEF One

(* The callbacks of the transitions there are. *)
LEMMA MadeIs ==
    ASSUME NEW acts
    PROVE  /\ acts \cap Callbacks = {} => Made(acts) = <<>>
           /\ \A a \in Callbacks : acts \cap Callbacks = {a} => Made(acts) = <<a>>
           /\ acts \cap Callbacks = {"path", "uri"} => Made(acts) = <<"path", "uri">>
           /\ acts \cap Callbacks = {"query", "uri"} => Made(acts) = <<"query", "uri">>
           /\ acts \cap Callbacks = {"chunk_size", "done"} => Made(acts) = <<"chunk_size", "done">>
           /\ acts \cap Callbacks = {"field", "done"} => Made(acts) = <<"field", "done">>
<1>1. <<>> \o <<>> = <<>>
  OBVIOUS
<1>2. \A a : <<a>> \o <<>> = <<a>> /\ <<>> \o <<a>> = <<a>>
  OBVIOUS
<1>3. \A a, b \in Callbacks : <<a>> \o <<b>> = <<a, b>> /\ <<a, b>> \o <<>> = <<a, b>>
  BY CatPair
<1>4. acts \cap Callbacks = {} => Made(acts) = <<>>
  BY <1>1, OneFacts DEF Made, Callbacks
<1>5. ASSUME NEW a \in Callbacks, acts \cap Callbacks = {a} PROVE Made(acts) = <<a>>
  <2>1. \A b \in Callbacks : One(b, acts) = IF b = a THEN <<a>> ELSE <<>>
    BY <1>5, OneFacts
  <2> QED BY <1>1, <1>2, <2>1 DEF Made, Callbacks
<1>10. ASSUME NEW a, NEW b, 
              (a = "path" /\ b = "uri") \/ (a = "query" /\ b = "uri")
                \/ (a = "chunk_size" /\ b = "done") \/ (a = "field" /\ b = "done"),
              acts \cap Callbacks = {a, b}
       PROVE  Made(acts) = <<a, b>>
  <2>1. a \in Callbacks /\ b \in Callbacks
    BY <1>10 DEF Callbacks
  <2>2. \A x \in Callbacks : One(x, acts) = IF x = a THEN <<a>> ELSE IF x = b THEN <<b>> ELSE <<>>
    BY <1>10, OneFacts
  <2>3. <<a>> \o <<b>> = <<a, b>> /\ <<a, b>> \o <<>> = <<a, b>>
    BY <1>3, <2>1
  <2>4. CASE a = "path" /\ b = "uri"
    BY <1>1, <1>2, <2>2, <2>3, <2>4 DEF Made, Callbacks
  <2>5. CASE a = "query" /\ b = "uri"
    BY <1>1, <1>2, <2>2, <2>3, <2>5 DEF Made, Callbacks
  <2>6. CASE a = "chunk_size" /\ b = "done"
    BY <1>1, <1>2, <2>2, <2>3, <2>6 DEF Made, Callbacks
  <2>7. CASE a = "field" /\ b = "done"
    BY <1>1, <1>2, <2>2, <2>3, <2>7 DEF Made, Callbacks
  <2> QED BY <1>10, <2>4, <2>5, <2>6, <2>7
<1>6. acts \cap Callbacks = {"path", "uri"} => Made(acts) = <<"path", "uri">>
  BY <1>10 DEF Callbacks
<1>7. acts \cap Callbacks = {"query", "uri"} => Made(acts) = <<"query", "uri">>
  BY <1>10 DEF Callbacks
<1>8. acts \cap Callbacks = {"chunk_size", "done"} => Made(acts) = <<"chunk_size", "done">>
  BY <1>10 DEF Callbacks
<1>9. acts \cap Callbacks = {"field", "done"} => Made(acts) = <<"field", "done">>
  BY <1>10 DEF Callbacks
<1> QED BY <1>4, <1>5, <1>6, <1>7, <1>8, <1>9

(* The sequences are sequences of callbacks. *)
LEMMA OrderTypes ==
    /\ Targets \subseteq Seq(Callbacks) /\ Versions \subseteq Seq(Callbacks) /\ Heads \subseteq Seq(Callbacks)
    /\ Statuses \subseteq Seq(Callbacks) /\ Chunks \subseteq Seq(Callbacks)
<1>1. \A x \in Callbacks : Optional(x) \subseteq Seq(Callbacks) /\ <<x>> \in Seq(Callbacks)
  BY EmptySeq DEF Optional
<1>2. \A s, t \in Seq(Callbacks) : s \o t \in Seq(Callbacks)
  BY ConcatProperties
<1>3. {"method", "path", "query", "uri", "fragment", "version", "status", "reason", "chunk_size", "field", "done"}
        \subseteq Callbacks
  BY DEF Callbacks
<1>4. <<"method", "path">> \in Seq(Callbacks) /\ <<"version", "status", "reason">> \in Seq(Callbacks)
  BY <1>3
<1>5. Targets \subseteq Seq(Callbacks)
  BY <1>1, <1>2, <1>3, <1>4 DEF Targets
<1>6. Versions \subseteq Seq(Callbacks)
  <2> SUFFICES ASSUME NEW v \in Versions PROVE v \in Seq(Callbacks)
    OBVIOUS
  <2>1. PICK u \in Targets, g \in Optional("fragment") : v = u \o g
    BY DEF Versions
  <2>2. g \in Seq(Callbacks) /\ u \in Seq(Callbacks)
    BY <1>1, <1>3, <1>5
  <2> QED BY <1>2, <2>1, <2>2
<1>7. Heads \subseteq Seq(Callbacks)
  <2> SUFFICES ASSUME NEW x \in Heads PROVE x \in Seq(Callbacks)
    OBVIOUS
  <2>1. PICK v \in Versions, h \in Optional("field") : x = v \o <<"version">> \o h
    BY DEF Heads
  <2>2. h \in Seq(Callbacks) /\ v \in Seq(Callbacks) /\ <<"version">> \in Seq(Callbacks)
    BY <1>1, <1>3, <1>6
  <2>3. v \o <<"version">> \in Seq(Callbacks)
    BY <1>2, <2>2
  <2> QED BY <1>2, <2>1, <2>2, <2>3
<1>8. Statuses \subseteq Seq(Callbacks) /\ Chunks \subseteq Seq(Callbacks)
  BY <1>1, <1>2, <1>3, <1>4 DEF Statuses, Chunks
<1> QED BY <1>5, <1>6, <1>7, <1>8

(* Nothing is added by no callback, and one that is not a repeated field   *)
(* comes behind the others.                                                *)
LEMMA AddFacts ==
    ASSUME NEW s \in Seq(Callbacks)
    PROVE  /\ Add(s, <<>>) = s
           /\ \A a \in Callbacks \ {"field"} : Add(s, <<a>>) = s \o <<a>>
           /\ \A a \in Callbacks \ {"field"}, b \in Callbacks : Add(s, <<a, b>>) = s \o <<a, b>>
<1>1. Add(s, <<>>) = s
  BY CatFacts DEF Add
<1>2. \A a : <<a>>[1] = a /\ \A b : <<a, b>>[1] = a
  OBVIOUS
<1>3. \A a \in Callbacks \ {"field"} : Add(s, <<a>>) = s \o <<a>>
  BY <1>2 DEF Add
<1>4. \A a \in Callbacks \ {"field"}, b \in Callbacks : Add(s, <<a, b>>) = s \o <<a, b>>
  BY <1>2 DEF Add
<1> QED BY <1>1, <1>3, <1>4

(* A field callback comes behind something else, or repeats one.           *)
LEMMA AddField ==
    ASSUME NEW t \in Seq(Callbacks), NEW e \in Callbacks \ {"field"}, NEW h \in Optional("field"),
           NEW x, x = t \o <<e>> \o h
    PROVE  Add(x, <<"field">>) = t \o <<e>> \o <<"field">>
<1>1. "field" \in Callbacks /\ <<"field">>[1] = "field" /\ <<"field">> # <<>> /\ Tail(<<"field">>) = <<>>
  BY DEF Callbacks
<1> DEFINE y == t \o <<e>>
<1>2. y \in Seq(Callbacks) /\ y # <<>> /\ y[Len(y)] = e
  BY CatFacts
<1> HIDE DEF y
<1>3. CASE h = <<>>
  <2>1. x = y
    BY <1>2, <1>3, CatFacts DEF y
  <2>2. Add(x, <<"field">>) = y \o <<"field">>
    BY <1>1, <1>2, <2>1 DEF Add
  <2> QED BY <2>2 DEF y
<1>4. CASE h = <<"field">>
  <2>1. x = y \o <<"field">>
    BY <1>4 DEF y
  <2>2. x \in Seq(Callbacks) /\ x # <<>> /\ x[Len(x)] = "field"
    <3>1. \A a \in Callbacks : /\ y \o <<a>> \in Seq(Callbacks) /\ y \o <<a>> # <<>>
                                /\ (y \o <<a>>)[Len(y \o <<a>>)] = a
      BY <1>2, CatFacts
    <3> QED BY <1>1, <2>1, <3>1
  <2>3. Add(x, <<"field">>) = x \o <<>>
    BY <1>1, <2>2 DEF Add
  <2>4. Add(x, <<"field">>) = x
    BY <2>2, <2>3, CatFacts
  <2> QED BY <2>1, <2>4 DEF y
<1> QED BY <1>3, <1>4 DEF Optional

(* Membership in the sets of sequences. *)
LEMMA HeadsIn == \A v \in Versions, h \in Optional("field") : v \o <<"version">> \o h \in Heads
  BY DEF Heads
(* The reports that are complete. *)
LEMMA OrdersIn ==
    ASSUME NEW q \in Optional("query"), NEW g \in Optional("fragment"), NEW h \in Optional("field")
    PROVE  <<"method", "path">> \o q \o <<"uri">> \o g \o <<"version">> \o h \o <<"done">> \in RequestOrders
  BY DEF RequestOrders

(* What the callbacks of a request add up to. *)
LEMMA RequestOrder ==
    /\ Add(<<>>, <<"method">>) = <<"method">> /\ Add(<<>>, <<"path">>) = <<"path">>
    /\ Add(<<"method">>, <<"path">>) = <<"method", "path">>
    /\ Add(<<"method">>, <<"path", "uri">>) \in Targets
    /\ Add(<<"method", "path">>, <<"query", "uri">>) \in Targets
    /\ \A x \in Targets : Add(x, <<"fragment">>) \in Versions /\ x \in Versions
    /\ \A x \in Versions : Add(x, <<"version">>) \in Heads
    /\ \A x \in Heads : Add(x, <<"field">>) \in Heads /\ Add(x, <<"done">>) \in Orders
    /\ Add(<<"path">>, <<"done">>) \in Orders
<1> DEFINE C == Callbacks
<1>0. /\ {"method", "path", "query", "uri", "fragment", "version", "done"} \subseteq C \ {"field"} /\ "field" \in C
      /\ <<>> \in Seq(C) /\ <<"method">> \in Seq(C) /\ <<"method", "path">> \in Seq(C) /\ <<"path">> \in Seq(C)
      /\ <<"uri">> \in Seq(C) /\ <<"query">> \in Seq(C)
  BY EmptySeq DEF Callbacks
<1> HIDE DEF C
<1>1. /\ <<>> \in Optional("query") /\ <<"query">> \in Optional("query")
      /\ <<>> \in Optional("fragment") /\ <<"fragment">> \in Optional("fragment")
      /\ <<>> \in Optional("field") /\ <<"field">> \in Optional("field")
  BY DEF Optional
<1>2. Add(<<>>, <<"method">>) = <<"method">> /\ Add(<<>>, <<"path">>) = <<"path">>
  <2>1. Add(<<>>, <<"method">>) = <<>> \o <<"method">> /\ Add(<<>>, <<"path">>) = <<>> \o <<"path">>
    BY <1>0, AddFacts DEF C
  <2> QED BY <1>0, <2>1, ConcatEmptySeq
<1>3. Add(<<"method">>, <<"path">>) = <<"method", "path">>
  <2>1. Add(<<"method">>, <<"path">>) = <<"method">> \o <<"path">>
    BY <1>0, AddFacts DEF C
  <2> QED BY <1>0, <2>1, CatPair DEF C
<1>4. Add(<<"method">>, <<"path", "uri">>) \in Targets
  <2>0. <<"path", "uri">>[1] # "field"
    OBVIOUS
  <2>1. Add(<<"method">>, <<"path", "uri">>) = <<"method">> \o <<"path", "uri">>
    BY <2>0 DEF Add
  <2>2. <<"path", "uri">> = <<"path">> \o <<"uri">> /\ <<"method", "path">> = <<"method">> \o <<"path">>
    BY <1>0, CatPair DEF C
  <2>3. <<"method">> \o (<<"path">> \o <<"uri">>) = (<<"method">> \o <<"path">>) \o <<"uri">>
    BY <1>0, ConcatAssociative
  <2>4. <<"method", "path">> \o <<>> = <<"method", "path">>
    BY <1>0, ConcatEmptySeq
  <2>5. Add(<<"method">>, <<"path", "uri">>) = <<"method", "path">> \o <<>> \o <<"uri">>
    BY <2>1, <2>2, <2>3, <2>4
  <2> QED BY <1>1, <2>5 DEF Targets
<1>5. Add(<<"method", "path">>, <<"query", "uri">>) \in Targets
  <2>0. <<"query", "uri">>[1] # "field"
    OBVIOUS
  <2>1. Add(<<"method", "path">>, <<"query", "uri">>) = <<"method", "path">> \o <<"query", "uri">>
    BY <2>0 DEF Add
  <2>2. <<"query", "uri">> = <<"query">> \o <<"uri">>
    BY <1>0, CatPair DEF C
  <2>3. <<"method", "path">> \o (<<"query">> \o <<"uri">>) = (<<"method", "path">> \o <<"query">>) \o <<"uri">>
    BY <1>0, ConcatAssociative
  <2> QED BY <1>1, <2>1, <2>2, <2>3 DEF Targets
<1>6. ASSUME NEW x \in Targets PROVE Add(x, <<"fragment">>) \in Versions /\ x \in Versions
  <2>1. x \in Seq(C)
    BY OrderTypes DEF C
  <2>2. Add(x, <<"fragment">>) = x \o <<"fragment">> /\ x = x \o <<>>
    BY <1>0, <2>1, AddFacts, CatFacts DEF C
  <2>3. \A g \in Optional("fragment") : x \o g \in Versions
    BY DEF Versions
  <2> QED BY <1>1, <2>2, <2>3
<1>7. ASSUME NEW x \in Versions PROVE Add(x, <<"version">>) \in Heads
  <2>1. x \in Seq(C)
    BY OrderTypes DEF C
  <2>2. Add(x, <<"version">>) = x \o <<"version">>
    BY <1>0, <2>1, AddFacts DEF C
  <2>3. x \o <<"version">> \in Seq(C)
    BY <1>0, <2>1, CatFacts DEF C
  <2>4. x \o <<"version">> = x \o <<"version">> \o <<>>
    BY <2>3, CatFacts DEF C
  <2> QED BY <1>1, <2>2, <2>4 DEF Heads
<1>8. ASSUME NEW x \in Heads PROVE Add(x, <<"field">>) \in Heads /\ Add(x, <<"done">>) \in Orders
  <2>1. PICK v \in Versions, h \in Optional("field") : x = v \o <<"version">> \o h
    BY DEF Heads
  <2>2. v \in Seq(C) /\ x \in Seq(C)
    BY OrderTypes DEF C
  <2>3. Add(x, <<"field">>) = v \o <<"version">> \o <<"field">>
    BY <1>0, <2>1, <2>2, AddField DEF C
  <2>4. Add(x, <<"done">>) = v \o <<"version">> \o h \o <<"done">>
    BY <1>0, <2>1, <2>2, AddFacts DEF C
  <2>5. PICK u \in Targets, g \in Optional("fragment") : v = u \o g
    BY DEF Versions
  <2>6. PICK q \in Optional("query") : u = <<"method", "path">> \o q \o <<"uri">>
    BY DEF Targets
  <2>7. Add(x, <<"done">>) = <<"method", "path">> \o q \o <<"uri">> \o g \o <<"version">> \o h \o <<"done">>
    BY <2>4, <2>5, <2>6
  <2>8. v \o <<"version">> \o <<"field">> \in Heads
    BY <1>1, HeadsIn
  <2>9. Add(x, <<"done">>) \in Orders
    BY <2>7, OrdersIn DEF Orders
  <2> QED BY <2>3, <2>8, <2>9
<1>9. Add(<<"path">>, <<"done">>) \in Orders
  <2>1. Add(<<"path">>, <<"done">>) = <<"path">> \o <<"done">>
    BY <1>0, AddFacts DEF C
  <2>2. <<"path">> \o <<"done">> = <<"path", "done">>
    BY <1>0, CatPair DEF C
  <2> QED BY <2>1, <2>2 DEF Orders
<1> QED BY <1>2, <1>3, <1>4, <1>5, <1>6, <1>7, <1>8, <1>9

(* What the callbacks of a response or a chunk add up to. *)
LEMMA ResponseOrder ==
    /\ Add(<<>>, <<"version">>) = <<"version">>
    /\ Add(<<"version">>, <<"status">>) = <<"version", "status">>
    /\ Add(<<"version", "status">>, <<"reason">>) \in Statuses
    /\ Add(<<>>, <<"chunk_size">>) \in Chunks
    /\ Add(<<>>, <<"chunk_size", "done">>) \in Orders
    /\ \A x \in Statuses : Add(x, <<"field">>) \in Statuses
    /\ \A x \in Chunks : Add(x, <<"field">>) \in Chunks /\ Add(x, <<"field", "done">>) \in Orders
    /\ \A x \in Statuses \cup Chunks : Add(x, <<"done">>) \in Orders
<1> DEFINE C == Callbacks
<1>0. /\ {"version", "status", "reason", "chunk_size", "done"} \subseteq C \ {"field"} /\ "field" \in C
      /\ <<>> \in Seq(C) /\ <<"version">> \in Seq(C) /\ <<"version", "status">> \in Seq(C)
      /\ <<"version", "status", "reason">> \in Seq(C) /\ <<"chunk_size">> \in Seq(C) /\ <<"field">> \in Seq(C)
      /\ <<"done">> \in Seq(C)
  BY EmptySeq DEF Callbacks
<1> HIDE DEF C
<1>1. /\ <<>> \in Optional("field") /\ <<"field">> \in Optional("field")
      /\ \A h \in Optional("field") : h = <<>> \/ h = <<"field">>
  BY DEF Optional
<1>2. Add(<<>>, <<"version">>) = <<"version">>
  <2>1. Add(<<>>, <<"version">>) = <<>> \o <<"version">>
    BY <1>0, AddFacts DEF C
  <2> QED BY <1>0, <2>1, ConcatEmptySeq
<1>3. Add(<<"version">>, <<"status">>) = <<"version", "status">>
  <2>1. Add(<<"version">>, <<"status">>) = <<"version">> \o <<"status">>
    BY <1>0, AddFacts DEF C
  <2> QED BY <1>0, <2>1, CatPair DEF C
<1>4. /\ \A h \in Optional("field") : <<"version", "status", "reason">> \o h \in Statuses
      /\ \A h \in Optional("field") : <<"chunk_size">> \o h \in Chunks
  BY DEF Statuses, Chunks
<1>5. <<"version", "status">> \o <<"reason">> = <<"version", "status", "reason">>
  <2> DEFINE s == <<"version", "status">>
             t == <<"version", "status", "reason">>
  <2>1. <<"reason">> \in Seq(C) /\ Len(<<"reason">>) = 1 /\ Len(s) = 2 /\ Len(t) = 3 /\ <<"reason">>[1] = "reason"
        /\ s[1] = "version" /\ s[2] = "status" /\ t[1] = "version" /\ t[2] = "status" /\ t[3] = "reason"
    BY <1>0
  <2>2. s \in Seq(C) /\ t \in Seq(C)
    BY <1>0
  <2> HIDE DEF s, t
  <2> DEFINE r == <<"reason">>
  <2> HIDE DEF r
  <2>6. r \in Seq(C) /\ Len(r) = 1 /\ r[1] = "reason"
    BY <2>1 DEF r
  <2>7. /\ s \o r \in Seq(C) /\ Len(s \o r) = Len(s) + Len(r)
        /\ \A i \in 1 .. Len(s) + Len(r) : (s \o r)[i] = IF i <= Len(s) THEN s[i] ELSE r[i - Len(s)]
    BY <2>2, <2>6, ConcatProperties
  <2>8. Len(s) + Len(r) = 3 /\ Len(s) = 2
    BY <2>1, <2>6
  <2>9. \A i \in 1 .. 3 : (s \o r)[i] = IF i <= 2 THEN s[i] ELSE r[i - 2]
    BY <2>7, <2>8
  <2>3. /\ s \o <<"reason">> \in Seq(C) /\ Len(s \o <<"reason">>) = 3
        /\ (s \o <<"reason">>)[1] = s[1] /\ (s \o <<"reason">>)[2] = s[2] /\ (s \o <<"reason">>)[3] = "reason"
    BY <2>6, <2>7, <2>8, <2>9 DEF r
  <2>4. \A i \in 1 .. 3 : (s \o <<"reason">>)[i] = t[i]
    BY <2>1, <2>3
  <2>5. s \o <<"reason">> = t
    BY <2>1, <2>2, <2>3, <2>4, SeqEqual
  <2> QED BY <2>5 DEF s, t
<1>6. Add(<<"version", "status">>, <<"reason">>) \in Statuses
  <2>1. Add(<<"version", "status">>, <<"reason">>) = <<"version", "status">> \o <<"reason">>
    BY <1>0, AddFacts DEF C
  <2>2. <<"version", "status", "reason">> = <<"version", "status", "reason">> \o <<>>
    BY <1>0, ConcatEmptySeq
  <2> QED BY <1>1, <1>4, <1>5, <2>1, <2>2
<1>7. Add(<<>>, <<"chunk_size">>) \in Chunks
  <2>1. Add(<<>>, <<"chunk_size">>) = <<>> \o <<"chunk_size">>
    BY <1>0, AddFacts DEF C
  <2>2. <<>> \o <<"chunk_size">> = <<"chunk_size">> \o <<>>
    BY <1>0, ConcatEmptySeq
  <2> QED BY <1>1, <1>4, <2>1, <2>2
<1>8. \A h \in Optional("field") : /\ <<"version", "status", "reason">> \o h \o <<"done">> \in Orders
                                   /\ <<"chunk_size">> \o h \o <<"done">> \in Orders
  <2> SUFFICES ASSUME NEW h \in Optional("field")
               PROVE  /\ <<"version", "status", "reason">> \o h \o <<"done">> \in ResponseOrders
                      /\ <<"chunk_size">> \o h \o <<"done">> \in ResponseOrders
    BY DEF Orders
  <2> QED BY DEF ResponseOrders
<1>9. Add(<<>>, <<"chunk_size", "done">>) \in Orders
  <2>0. <<"chunk_size", "done">>[1] # "field"
    OBVIOUS
  <2>1. Add(<<>>, <<"chunk_size", "done">>) = <<>> \o <<"chunk_size", "done">>
    BY <2>0 DEF Add
  <2>2. <<"chunk_size", "done">> = <<"chunk_size">> \o <<"done">>
    BY <1>0, CatPair DEF C
  <2>3. <<"chunk_size">> = <<"chunk_size">> \o <<>> /\ <<"chunk_size", "done">> \in Seq(C)
    BY <1>0, ConcatEmptySeq
  <2>4. <<>> \o <<"chunk_size", "done">> = <<"chunk_size", "done">>
    BY <2>3, ConcatEmptySeq
  <2>5. Add(<<>>, <<"chunk_size", "done">>) = <<"chunk_size">> \o <<>> \o <<"done">>
    BY <2>1, <2>2, <2>3, <2>4
  <2> QED BY <1>1, <1>8, <2>5
<1>10. ASSUME NEW x \in Statuses
       PROVE  Add(x, <<"field">>) \in Statuses /\ Add(x, <<"done">>) \in Orders
  <2>1. PICK h \in Optional("field") : x = <<"version", "status", "reason">> \o h
    BY DEF Statuses
  <2>2. x = <<"version", "status">> \o <<"reason">> \o h
    BY <1>5, <2>1
  <2>3. Add(x, <<"field">>) = <<"version", "status">> \o <<"reason">> \o <<"field">>
    <3> PICK t, e : t = <<"version", "status">> /\ e = "reason"
      OBVIOUS
    <3>1. t \in Seq(C) /\ e \in C \ {"field"} /\ x = t \o <<e>> \o h
      BY <1>0, <2>2
    <3>2. Add(x, <<"field">>) = t \o <<e>> \o <<"field">>
      BY <3>1, AddField DEF C
    <3> QED BY <3>2
  <2>4. x \in Seq(C)
    BY OrderTypes DEF C
  <2>5. Add(x, <<"done">>) = <<"version", "status", "reason">> \o h \o <<"done">>
    BY <1>0, <2>1, <2>4, AddFacts DEF C
  <2> QED BY <1>1, <1>4, <1>5, <1>8, <2>3, <2>5
<1>11. ASSUME NEW x \in Chunks
       PROVE  /\ Add(x, <<"field">>) \in Chunks /\ Add(x, <<"done">>) \in Orders
              /\ Add(x, <<"field", "done">>) \in Orders
  <2>1. PICK h \in Optional("field") : x = <<"chunk_size">> \o h
    BY DEF Chunks
  <2>2. <<"chunk_size">> = <<>> \o <<"chunk_size">>
    BY <1>0, ConcatEmptySeq
  <2>3. x = <<>> \o <<"chunk_size">> \o h
    BY <2>1, <2>2
  <2>4. Add(x, <<"field">>) = <<>> \o <<"chunk_size">> \o <<"field">>
    <3> PICK t, e : t = <<>> /\ e = "chunk_size"
      OBVIOUS
    <3>1. t \in Seq(C) /\ e \in C \ {"field"} /\ x = t \o <<e>> \o h
      BY <1>0, <2>3
    <3>2. Add(x, <<"field">>) = t \o <<e>> \o <<"field">>
      BY <3>1, AddField DEF C
    <3> QED BY <3>2
  <2>5. x \in Seq(C)
    BY OrderTypes DEF C
  <2>6. Add(x, <<"done">>) = <<"chunk_size">> \o h \o <<"done">>
    BY <1>0, <2>1, <2>5, AddFacts DEF C
  <2>7. Add(x, <<"field", "done">>) = <<"chunk_size">> \o <<"field">> \o <<"done">>
    <3>1. CASE h = <<>>
      <4>1. x = <<"chunk_size">> /\ x # <<>> /\ x[Len(x)] = "chunk_size"
        BY <1>0, <2>1, <3>1, ConcatEmptySeq
      <4>2. Add(x, <<"field", "done">>) = x \o <<"field", "done">>
        BY <4>1 DEF Add
      <4>3. <<"field", "done">> = <<"field">> \o <<"done">>
        BY <1>0, CatPair DEF C
      <4>4. x \o (<<"field">> \o <<"done">>) = (x \o <<"field">>) \o <<"done">>
        BY <1>0, <2>5, ConcatAssociative
      <4> QED BY <4>1, <4>2, <4>3, <4>4
    <3>2. CASE h = <<"field">>
      <4>1. x # <<>> /\ x[Len(x)] = "field"
        <5>1. <<"chunk_size">> \o <<"field">> = <<"chunk_size", "field">>
          BY <1>0, CatPair DEF C
        <5>2. x = <<"chunk_size", "field">>
          BY <2>1, <3>2, <5>1
        <5> QED BY <5>2
      <4>2. <<"field", "done">> # <<>> /\ <<"field", "done">>[1] = "field" /\ Tail(<<"field", "done">>) = <<"done">>
        OBVIOUS
      <4>3. Add(x, <<"field", "done">>) = x \o <<"done">>
        BY <4>1, <4>2 DEF Add
      <4> QED BY <2>1, <3>2, <4>3
    <3> QED BY <1>1, <3>1, <3>2
  <2> QED BY <1>1, <1>4, <1>8, <2>2, <2>4, <2>6, <2>7
<1> QED BY <1>2, <1>3, <1>6, <1>7, <1>9, <1>10, <1>11

----------------------------------------------------------------------------
(* The callbacks of the transitions of both parsers *)

(* The callbacks of a transition that makes none. *)
LEMMA NoCalls ==
    ASSUME NEW acts, \A a \in acts : a \notin Callbacks
    PROVE  acts \cap Callbacks = {} /\ Made(acts) = <<>>
  BY MadeIs

----------------------------------------------------------------------------
(* The request parser *)

Is(d, s, acts) == d = [to |-> s, acts |-> acts]

PathNames == {"target", "segment", "path", "slash", "authority", "userOrPort", "user", "host", "port",
              "scheme", "hier"}
FieldNames == {"header", "name", "lastcr", "lws", "value", "crlf"}

\* What has been reported in a state with name a, counter b and mode e.
RequestCalls(a, e, k) ==
    /\ a \in {"start", "method", "xmlName"}                       => k = <<>>
    /\ a \in PathNames /\ e = "json"                              => k = <<>>
    /\ a \in PathNames /\ e = "http"                              => k = <<"method">>
    /\ a \in {"query0", "query"}                                  => k = <<"method", "path">>
    /\ a \in {"fragment0", "fragment"}                            => k \in Targets
    /\ a = "version"                                              => k \in Versions
    /\ a \in FieldNames                                           => k \in Heads
    /\ a \in {"xml", "xmlClose", "brace", "json", "jsonClose"}    => k = <<"path">>
    /\ a = "final"                                                => k \in Orders

\* The part that mark points at, where a later callback uses it.
RequestMark(a, b, e, m) ==
    /\ a \in {"method", "xmlName"}                         => m = "first"
    /\ a \in PathNames /\ e = "json"                       => m = "first"
    /\ a \in PathNames \ {"target"} /\ e = "http"          => m = "target"
    /\ a \in {"query0", "query"}                           => m = "target"
    /\ a = "fragment"                                      => m = "fragment"
    /\ a = "version" /\ b # 0                              => m = "version"
    /\ a = "value"                                         => m = "value"

\* field_start and field_len belong to the line that is being read.
RequestName(a, n) ==
    /\ a \in {"name", "lastcr"} => n.start = 1
    /\ a \in {"lws", "value"}   => n = [start |-> 1, len |-> 1]

\* A scheme is read of an HTTP request only.
RequestAt(a, b, e, m, n, k) ==
    /\ e \in {"http", "json"}
    /\ a \in {"scheme", "hier"} => e = "http"
    /\ RequestCalls(a, e, k) /\ RequestMark(a, b, e, m) /\ RequestName(a, n)

RequestFits(s, m, n, k) == DOMAIN s = 1 .. 3 /\ RequestAt(s[1], s[2], s[3], m, n, k)

\* What a transition makes of mark, field_start, field_len and the callbacks.
MarkAfter(s, d, m) == IF "mark" \in d.acts THEN Part(s) ELSE m
NameAfter(d, n)    == [start |-> IF "field_start" \in d.acts THEN 1 ELSE n.start,
                       len   |-> IF "field_len" \in d.acts THEN 1
                                 ELSE IF "field_start" \in d.acts THEN 0 ELSE n.len]

\* The callbacks of a transition get what belongs to them.
Owned(d, m, n) ==
    /\ \A a \in d.acts \cap Callbacks \cap DOMAIN OwnParts : m \in OwnParts[a]
    /\ "field" \in d.acts => n = [start |-> 1, len |-> 1]

RequestGood(s, d, m, n, k) ==
    /\ RequestFits(d.to, MarkAfter(s, d, m), NameAfter(d, n), Add(k, Made(d.acts)))
    /\ Owned(d, MarkAfter(s, d, m), NameAfter(d, n))

(* The parts that marks open. *)
LEMMA PartIs ==
    ASSUME NEW s
    PROVE  /\ s[1] = "start" => Part(s) = "first"
           /\ s[1] \in {"target", "hier"} => Part(s) = "target"
           /\ s[1] = "fragment0" => Part(s) = "fragment"
           /\ s[1] = "version" => Part(s) = "version"
           /\ s[1] = "brace" => Part(s) = "brace"
           /\ s[1] = "status0" => Part(s) = "status0"
           /\ s[1] = "reason0" => Part(s) = "reason0"
           /\ s[1] \in {"lws", "emptyLine", "extName", "extEq", "fold", "emptyCr", "emptyLineCr"} => Part(s) = "value"
<1>1. s[1] = "start" => Part(s) = "first"
  BY Zenon DEF Part
<1>2. s[1] \in {"target", "hier"} => Part(s) = "target"
  BY Zenon DEF Part
<1>3. s[1] = "fragment0" => Part(s) = "fragment"
  BY Zenon DEF Part
<1>4. s[1] = "version" => Part(s) = "version"
  BY Zenon DEF Part
<1>5. s[1] = "brace" => Part(s) = "brace"
  BY Zenon DEF Part
<1>6. s[1] = "status0" => Part(s) = "status0"
  BY Zenon DEF Part
<1>7. s[1] = "reason0" => Part(s) = "reason0"
  BY Zenon DEF Part
<1>8. s[1] \in {"lws", "emptyLine", "extName", "extEq", "fold", "emptyCr", "emptyLineCr"} => Part(s) = "value"
  BY Zenon DEF Part
<1> QED BY <1>1, <1>2, <1>3, <1>4, <1>5, <1>6, <1>7, <1>8

(* What follows from the parts of a state. *)
LEMMA FitsWhere ==
    ASSUME NEW a, NEW b, NEW e, NEW m, NEW n, NEW k, RequestAt(a, b, e, m, n, k)
    PROVE  RequestFits(<<a, b, e>>, m, n, k)
<1> DEFINE t == <<a, b, e>>
<1>1. t[1] = a /\ t[2] = b /\ t[3] = e /\ DOMAIN t = 1 .. 3
  OBVIOUS
<1> HIDE DEF t
<1>2. RequestFits(t, m, n, k)
  BY <1>1 DEF RequestFits
<1> QED BY <1>2 DEF t

(* A transition without callbacks ... *)
LEMMA RequestSilent ==
    ASSUME NEW s, NEW d, NEW t, NEW acts, NEW m, NEW n, NEW k \in Seq(Callbacks),
           Is(d, t, acts), acts \subseteq {"mark", "field_start", "field_len", "query_start"},
           RequestFits(t, MarkAfter(s, d, m), NameAfter(d, n), k)
    PROVE  RequestGood(s, d, m, n, k)
<1>1. d.to = t /\ d.acts = acts
  BY DEF Is
<1>2. \A a \in acts : a \notin Callbacks /\ a # "field"
  BY DEF Callbacks
<1>3. acts \cap Callbacks = {} /\ Made(acts) = <<>>
  BY <1>2, NoCalls
<1>4. Add(k, Made(acts)) = k
  BY <1>3, AddFacts
<1>5. Owned(d, MarkAfter(s, d, m), NameAfter(d, n))
  BY <1>1, <1>2, <1>3 DEF Owned
<1> QED BY <1>1, <1>4, <1>5 DEF RequestGood

(* ... with one ... *)
LEMMA RequestSays ==
    ASSUME NEW s, NEW d, NEW t, NEW acts, NEW m, NEW n, NEW k, NEW a \in Callbacks,
           Is(d, t, acts), acts \cap Callbacks = {a},
           RequestFits(t, MarkAfter(s, d, m), NameAfter(d, n), Add(k, <<a>>)),
           a \in DOMAIN OwnParts => MarkAfter(s, d, m) \in OwnParts[a],
           a = "field" => NameAfter(d, n) = [start |-> 1, len |-> 1]
    PROVE  RequestGood(s, d, m, n, k)
<1>1. d.to = t /\ d.acts = acts
  BY DEF Is
<1>2. Made(acts) = <<a>>
  BY MadeIs
<1>3. "field" \in acts => a = "field"
  BY DEF Callbacks
<1>5. Owned(d, MarkAfter(s, d, m), NameAfter(d, n))
  BY <1>1, <1>3 DEF Owned
<1> QED BY <1>1, <1>2, <1>5 DEF RequestGood

(* ... and at the end of a target with two. *)
LEMMA RequestSaysUri ==
    ASSUME NEW s, NEW d, NEW t, NEW acts, NEW m, NEW n, NEW k, NEW a \in {"path", "query"},
           Is(d, t, acts), acts \cap Callbacks = {a, "uri"},
           RequestFits(t, MarkAfter(s, d, m), NameAfter(d, n), Add(k, <<a, "uri">>)),
           MarkAfter(s, d, m) = "target"
    PROVE  RequestGood(s, d, m, n, k)
<1>1. d.to = t /\ d.acts = acts
  BY DEF Is
<1>2. Made(acts) = <<a, "uri">>
  BY MadeIs
<1>3. "field" \notin acts
  BY DEF Callbacks
<1>4. \A x \in {a, "uri"} \cap DOMAIN OwnParts : "target" \in OwnParts[x]
  BY DEF OwnParts
<1>5. Owned(d, MarkAfter(s, d, m), NameAfter(d, n))
  BY <1>1, <1>3, <1>4 DEF Owned
<1> QED BY <1>1, <1>2, <1>5 DEF RequestGood

(* A malformed character: nothing is asked of an error. *)
LEMMA RequestFails ==
    ASSUME NEW s, NEW d, NEW m, NEW n, NEW k, Is(d, <<"error", 0, "http">>, {})
    PROVE  RequestGood(s, d, m, n, k)
<1>1. \A x, y, z : RequestAt("error", 0, "http", x, y, z)
  BY DEF RequestAt, RequestCalls, RequestMark, RequestName, PathNames, FieldNames
<1>2. d.to = <<"error", 0, "http">> /\ d.acts = {}
  BY DEF Is
<1>3. RequestFits(d.to, MarkAfter(s, d, m), NameAfter(d, n), Add(k, Made(d.acts)))
  BY <1>1, <1>2, FitsWhere
<1>4. Owned(d, MarkAfter(s, d, m), NameAfter(d, n))
  BY <1>2 DEF Owned
<1> QED BY <1>3, <1>4 DEF RequestGood

(* The callbacks made before are callbacks. *)
LEMMA RequestSeq ==
    ASSUME NEW s, NEW m, NEW n, NEW k, RequestFits(s, m, n, k),
           s[1] \in {"start", "method", "xmlName", "query0", "query", "fragment0", "fragment", "version",
                     "xml", "xmlClose", "brace", "json", "jsonClose"} \cup FieldNames \cup PathNames
    PROVE  k \in Seq(Callbacks)
<1>1. <<>> \in Seq(Callbacks) /\ <<"method">> \in Seq(Callbacks) /\ <<"method", "path">> \in Seq(Callbacks)
        /\ <<"path">> \in Seq(Callbacks)
  BY EmptySeq DEF Callbacks
<1>2. k \in {<<>>, <<"method">>, <<"method", "path">>, <<"path">>} \cup Targets \cup Versions \cup Heads
  BY DEF RequestFits, RequestAt, RequestCalls, PathNames, FieldNames
<1> QED BY <1>1, <1>2, OrderTypes

(* A character that changes nothing, or only the counter. *)
LEMMA RequestStays ==
    ASSUME NEW s, NEW d, NEW t, NEW m, NEW n, NEW k, RequestFits(s, m, n, k), k \in Seq(Callbacks),
           Is(d, t, {}), DOMAIN t = 1 .. 3, t[1] = s[1], t[3] = s[3], s[1] = "version" => s[2] # 0
    PROVE  RequestGood(s, d, m, n, k)
<1>1. MarkAfter(s, d, m) = m /\ NameAfter(d, n) = [start |-> n.start, len |-> n.len]
  BY DEF MarkAfter, NameAfter, Is
<1>2. RequestFits(t, m, [start |-> n.start, len |-> n.len], k)
  BY DEF RequestFits, RequestAt, RequestMark, RequestName
<1> QED BY <1>1, <1>2, RequestSilent

(* The start of a message ... *)
LEMMA RequestStart ==
    ASSUME NEW s, NEW c, NEW d, NEW m, NEW n, NEW k, RequestFits(s, m, n, k), s[1] = "start",
           d = Rq!StartStep(c)
    PROVE  RequestGood(s, d, m, n, k)
<1>0. k \in Seq(Callbacks)
  BY RequestSeq
<1>1. \/ Is(d, <<"method", 1, "http">>, {"mark"}) \/ Is(d, <<"xmlName", 0, "http">>, {"mark"})
      \/ Is(d, <<"target", 0, "json">>, {"mark"}) \/ Is(d, <<"error", 0, "http">>, {})
  BY DEF Is, Rq!StartStep, Rq!Go, Rq!S, Rq!Fail, Rq!Stay, Rq!Error
<1>2. k = <<>> /\ Part(s) = "first"
  BY PartIs DEF RequestFits, RequestAt, RequestCalls
<1>3. \A x : /\ RequestAt("method", 1, "http", "first", x, <<>>)
             /\ RequestAt("xmlName", 0, "http", "first", x, <<>>)
             /\ RequestAt("target", 0, "json", "first", x, <<>>)
  BY DEF RequestAt, RequestCalls, RequestMark, RequestName, PathNames, FieldNames
<1>4. ASSUME NEW a, NEW b, NEW e, Is(d, <<a, b, e>>, {"mark"}), \A x : RequestAt(a, b, e, "first", x, <<>>)
      PROVE  RequestGood(s, d, m, n, k)
  <2>1. MarkAfter(s, d, m) = "first"
    BY <1>2, <1>4 DEF MarkAfter, Is
  <2>2. RequestFits(<<a, b, e>>, MarkAfter(s, d, m), NameAfter(d, n), k)
    BY <1>2, <1>4, <2>1, FitsWhere
  <2> QED BY <1>0, <1>4, <2>2, RequestSilent
<1> QED BY <1>1, <1>3, <1>4, RequestFails

(* ... its method ... *)
LEMMA RequestMethod ==
    ASSUME NEW s, NEW c, NEW d, NEW m, NEW n, NEW k, RequestFits(s, m, n, k), s[1] = "method",
           d = Rq!MethodStep(s, c)
    PROVE  RequestGood(s, d, m, n, k)
<1>0. k \in Seq(Callbacks)
  BY RequestSeq
<1>1. \/ Is(d, <<"target", 0, "http">>, {"method"}) \/ Is(d, Rq!Further(s), {})
      \/ Is(d, <<"error", 0, "http">>, {})
  BY DEF Is, Rq!MethodStep, Rq!Upper, Rq!Digit, Rq!Go, Rq!S, Rq!Fail, Rq!Stay, Rq!Error
<1>2. k = <<>> /\ m = "first" /\ DOMAIN s = 1 .. 3
  BY DEF RequestFits, RequestAt, RequestCalls, RequestMark
<1>3. CASE Is(d, <<"target", 0, "http">>, {"method"})
  <2>1. "method" \in Callbacks /\ {"method"} \cap Callbacks = {"method"} /\ "first" \in OwnParts["method"]
    BY DEF Callbacks, OwnParts
  <2>2. MarkAfter(s, d, m) = "first"
    BY <1>2, <1>3 DEF MarkAfter, Is
  <2>3. \A x, y : RequestAt("target", 0, "http", y, x, <<"method">>)
    BY DEF RequestAt, RequestCalls, RequestMark, RequestName, PathNames, FieldNames
  <2>4. Add(k, <<"method">>) = <<"method">>
    BY <1>2, RequestOrder
  <2>5. RequestFits(<<"target", 0, "http">>, MarkAfter(s, d, m), NameAfter(d, n), Add(k, <<"method">>))
    BY <2>3, <2>4, FitsWhere
  <2> QED BY <1>3, <2>1, <2>2, <2>5, RequestSays
<1>4. CASE Is(d, Rq!Further(s), {})
  <2>1. DOMAIN Rq!Further(s) = 1 .. 3 /\ Rq!Further(s)[1] = s[1] /\ Rq!Further(s)[3] = s[3]
    BY <1>2 DEF Rq!Further
  <2> QED BY <1>0, <1>4, <2>1, RequestStays
<1> QED BY <1>1, <1>3, <1>4, RequestFails

(* The first character of a target or of what follows its scheme sets mark. *)
Opens(s, acts) ==
    \/ acts = {} /\ (s[1] = "target" => s[3] = "json")
    \/ acts = {"mark"} /\ s[1] \in {"target", "hier"} /\ s[3] = "http"

(* From one part of a target to the next ... *)
LEMMA RequestWalks ==
    ASSUME NEW s, NEW d, NEW a, NEW b, NEW acts, NEW m, NEW n, NEW k, RequestFits(s, m, n, k), s[1] \in PathNames,
           Is(d, <<a, b, s[3]>>, acts), a \in PathNames \ {"target"}, a \in {"scheme", "hier"} => s[3] = "http",
           Opens(s, acts)
    PROVE  RequestGood(s, d, m, n, k)
<1>0. k \in Seq(Callbacks)
  BY RequestSeq
<1>1. MarkAfter(s, d, m) = IF s[3] = "json" THEN "first" ELSE "target"
  BY PartIs DEF MarkAfter, Is, Opens, RequestFits, RequestAt, RequestMark
<1>2. acts \subseteq {"mark", "field_start", "field_len", "query_start"}
  BY DEF Opens
<1>3. s[3] \in {"http", "json"} /\ k = IF s[3] = "json" THEN <<>> ELSE <<"method">>
  BY DEF RequestFits, RequestAt, RequestCalls
<1>4. \A x, y : RequestAt(a, b, s[3], IF s[3] = "json" THEN "first" ELSE "target", x,
                          IF s[3] = "json" THEN <<>> ELSE <<"method">>)
  BY <1>3 DEF RequestAt, RequestCalls, RequestMark, RequestName, PathNames, FieldNames
<1>5. RequestFits(<<a, b, s[3]>>, MarkAfter(s, d, m), NameAfter(d, n), k)
  BY <1>1, <1>3, <1>4, FitsWhere
<1> QED BY <1>0, <1>2, <1>5, RequestSilent

(* ... and behind the last one. *)
PathEnds(s, d, acts) ==
    \/ s[3] = "json" /\ Is(d, <<"brace", 0, "http">>, acts \cup {"path"})
    \/ s[3] = "http" /\ Is(d, <<"version", 0, "http">>, acts \cup {"path", "uri"})
    \/ s[3] = "http" /\ Is(d, <<"query0", 0, "http">>, acts \cup {"path"})
    \/ s[3] = "http" /\ Is(d, <<"fragment0", 0, "http">>, acts \cup {"path", "uri"})
    \/ Is(d, <<"error", 0, "http">>, {})

(* The transitions of PathEnd. *)
LEMMA PathEndIs == ASSUME NEW s, NEW c, NEW acts PROVE PathEnds(s, Rq!PathEnd(s, c, acts), acts)
  BY DEF PathEnds, Is, Rq!PathEnd, Rq!Go, Rq!S, Rq!Fail, Rq!Stay, Rq!Error

(* They keep the callbacks in order and hand the path its own text. *)
LEMMA RequestPathEnd ==
    ASSUME NEW s, NEW d, NEW acts, NEW m, NEW n, NEW k, RequestFits(s, m, n, k), s[1] \in PathNames,
           PathEnds(s, d, acts), Opens(s, acts)
    PROVE  RequestGood(s, d, m, n, k)
<1>2. s[3] \in {"http", "json"} /\ k = IF s[3] = "json" THEN <<>> ELSE <<"method">>
  BY DEF RequestFits, RequestAt, RequestCalls
<1>3. "path" \in Callbacks /\ (acts \cup {"path"}) \cap Callbacks = {"path"}
      /\ (acts \cup {"path", "uri"}) \cap Callbacks = {"path", "uri"}
      /\ "first" \in OwnParts["path"] /\ "target" \in OwnParts["path"]
  BY DEF Opens, Callbacks, OwnParts
<1>4. /\ acts \cup {"path"} = d.acts \/ acts \cup {"path", "uri"} = d.acts
         => MarkAfter(s, d, m) = IF s[3] = "json" THEN "first" ELSE "target"
  BY PartIs DEF MarkAfter, Opens, RequestFits, RequestAt, RequestMark
<1>5. CASE s[3] = "json" /\ Is(d, <<"brace", 0, "http">>, acts \cup {"path"})
  <2>1. \A x, y : RequestAt("brace", 0, "http", y, x, <<"path">>)
    BY DEF RequestAt, RequestCalls, RequestMark, RequestName, PathNames, FieldNames
  <2>2. Add(k, <<"path">>) = <<"path">>
    BY <1>2, <1>5, RequestOrder
  <2>3. RequestFits(<<"brace", 0, "http">>, MarkAfter(s, d, m), NameAfter(d, n), Add(k, <<"path">>))
    BY <2>1, <2>2, FitsWhere
  <2>4. MarkAfter(s, d, m) \in OwnParts["path"]
    BY <1>3, <1>4, <1>5 DEF Is
  <2> QED BY <1>3, <1>5, <2>3, <2>4, RequestSays
<1>6. CASE s[3] = "http" /\ Is(d, <<"query0", 0, "http">>, acts \cup {"path"})
  <2>1. \A x : RequestAt("query0", 0, "http", "target", x, <<"method", "path">>)
    BY DEF RequestAt, RequestCalls, RequestMark, RequestName, PathNames, FieldNames
  <2>2. Add(k, <<"path">>) = <<"method", "path">>
    BY <1>2, <1>6, RequestOrder
  <2>4. MarkAfter(s, d, m) = "target"
    BY <1>4, <1>6 DEF Is
  <2>3. RequestFits(<<"query0", 0, "http">>, MarkAfter(s, d, m), NameAfter(d, n), Add(k, <<"path">>))
    BY <2>1, <2>2, <2>4, FitsWhere
  <2> QED BY <1>3, <1>6, <2>3, <2>4, RequestSays
<1>7. ASSUME NEW a, a \in {"version", "fragment0"}, s[3] = "http", Is(d, <<a, 0, "http">>, acts \cup {"path", "uri"})
      PROVE  RequestGood(s, d, m, n, k)
  <2>2. Add(k, <<"path", "uri">>) \in Targets /\ Add(k, <<"path", "uri">>) \in Versions
    BY <1>2, <1>7, RequestOrder
  <2>4. MarkAfter(s, d, m) = "target"
    BY <1>4, <1>7 DEF Is
  <2>1. \A x, z : z \in Targets /\ z \in Versions => RequestAt(a, 0, "http", "target", x, z)
    BY <1>7 DEF RequestAt, RequestCalls, RequestMark, RequestName, PathNames, FieldNames
  <2>3. RequestFits(<<a, 0, "http">>, MarkAfter(s, d, m), NameAfter(d, n), Add(k, <<"path", "uri">>))
    BY <2>1, <2>2, <2>4, FitsWhere
  <2> QED BY <1>3, <1>7, <2>3, <2>4, RequestSaysUri
<1> QED BY <1>5, <1>6, <1>7, RequestFails DEF PathEnds

(* The parts of a target, one by one. *)
LEMMA RequestTarget ==
    ASSUME NEW s, NEW c, NEW d, NEW m, NEW n, NEW k, RequestFits(s, m, n, k), s[1] = "target",
           d = Rq!TargetStep(s, c)
    PROVE  RequestGood(s, d, m, n, k)
<1> DEFINE acts == IF s[3] = "http" THEN {"mark"} ELSE {}
<1>1. \/ s[3] = "http" /\ Is(d, <<"scheme", 0, "http">>, acts)
      \/ Is(d, <<"segment", 0, s[3]>>, acts) \/ Is(d, <<"segment", 1, s[3]>>, acts)
      \/ Is(d, <<"slash", 0, s[3]>>, acts) \/ d = Rq!PathEnd(s, c, acts)
  BY DEF Is, Rq!TargetStep, Rq!Go, Rq!S, Rq!In, Rq!Pct
<1>2. Opens(s, acts) /\ s[1] \in PathNames
  BY DEF Opens, PathNames, RequestFits, RequestAt
<1> HIDE DEF acts
<1>3. {"scheme", "segment", "slash"} \subseteq PathNames \ {"target"}
  BY DEF PathNames
<1>4. CASE s[3] = "http" /\ Is(d, <<"scheme", 0, "http">>, acts)
  BY <1>2, <1>3, <1>4, RequestWalks
<1>5. CASE Is(d, <<"segment", 0, s[3]>>, acts)
  BY <1>2, <1>3, <1>5, RequestWalks
<1>6. CASE Is(d, <<"segment", 1, s[3]>>, acts)
  BY <1>2, <1>3, <1>6, RequestWalks
<1>7. CASE Is(d, <<"slash", 0, s[3]>>, acts)
  BY <1>2, <1>3, <1>7, RequestWalks
<1>8. CASE d = Rq!PathEnd(s, c, acts)
  BY <1>2, <1>8, PathEndIs, RequestPathEnd
<1> QED BY <1>1, <1>4, <1>5, <1>6, <1>7, <1>8

(* The steps inside a target that set no mark: they stay, go to another    *)
(* part or end the path.                                                   *)
Onward(s, d) ==
    \/ Is(d, s, {})
    \/ \E a \in PathNames \ {"target", "scheme", "hier"} :
          Is(d, <<a, 0, s[3]>>, {}) \/ Is(d, <<a, 1, s[3]>>, {})
    \/ PathEnds(s, d, {})
    \/ Is(d, <<"error", 0, "http">>, {})

(* They keep what a state promises. *)
LEMMA RequestOnward ==
    ASSUME NEW s, NEW d, NEW m, NEW n, NEW k, RequestFits(s, m, n, k), s[1] \in PathNames \ {"target"},
           Onward(s, d)
    PROVE  RequestGood(s, d, m, n, k)
<1>1. k \in Seq(Callbacks) /\ DOMAIN s = 1 .. 3 /\ s[1] # "version"
  BY RequestSeq DEF RequestFits, PathNames
<1>2. Opens(s, {})
  BY DEF Opens
<1>3. CASE Is(d, s, {})
  BY <1>1, <1>3, RequestStays
<1>4. ASSUME NEW a \in PathNames \ {"target", "scheme", "hier"},
             Is(d, <<a, 0, s[3]>>, {}) \/ Is(d, <<a, 1, s[3]>>, {})
      PROVE  RequestGood(s, d, m, n, k)
  BY <1>2, <1>4, RequestWalks
<1>5. CASE PathEnds(s, d, {})
  BY <1>2, <1>5, RequestPathEnd
<1> QED BY <1>3, <1>4, <1>5, RequestFails DEF Onward

(* Which of them are such steps. *)
LEMMA RequestParts ==
    ASSUME NEW s, NEW c, NEW d,
           \/ s[1] = "segment" /\ d = Rq!SegmentStep(s, c)
           \/ s[1] = "path" /\ d = Rq!PathStep(s, c)
           \/ s[1] = "slash" /\ d = Rq!SlashStep(s, c)
           \/ s[1] = "authority" /\ d = Rq!AuthorityStep(s, c)
           \/ s[1] = "userOrPort" /\ d = Rq!UserOrPortStep(s, c)
           \/ s[1] = "user" /\ d = Rq!UserStep(s, c)
           \/ s[1] = "host" /\ d = Rq!HostStep(s, c)
           \/ s[1] = "port" /\ d = Rq!PortStep(s, c)
    PROVE  Onward(s, d)
<1> DEFINE To(a) == Is(d, <<a, 0, s[3]>>, {}) \/ Is(d, <<a, 1, s[3]>>, {})
           Fails == Is(d, <<"error", 0, "http">>, {})
<1>1. \A a \in {"segment", "path", "authority", "userOrPort", "user", "host", "port"} : To(a) => Onward(s, d)
  BY DEF Onward, PathNames
<1>2. Is(d, s, {}) \/ d = Rq!PathEnd(s, c, {}) \/ Fails => Onward(s, d)
  BY PathEndIs DEF Onward
<1>3. CASE s[1] = "segment" /\ d = Rq!SegmentStep(s, c)
  <2>1. Is(d, s, {}) \/ To("segment") \/ To("path") \/ d = Rq!PathEnd(s, c, {})
    BY <1>3 DEF Is, Rq!SegmentStep, Rq!Stay, Rq!Go, Rq!In, Rq!Pct
  <2> QED BY <1>1, <1>2, <2>1
<1>4. CASE s[1] = "path" /\ d = Rq!PathStep(s, c)
  <2>1. Is(d, s, {}) \/ To("path") \/ d = Rq!PathEnd(s, c, {})
    BY <1>4 DEF Is, Rq!PathStep, Rq!Stay, Rq!Go, Rq!In, Rq!Pct
  <2> QED BY <1>1, <1>2, <2>1
<1>5. CASE s[1] = "slash" /\ d = Rq!SlashStep(s, c)
  <2>1. To("path") \/ To("authority") \/ d = Rq!PathEnd(s, c, {})
    BY <1>5 DEF Is, Rq!SlashStep, Rq!Stay, Rq!Go, Rq!In, Rq!Pct
  <2> QED BY <1>1, <1>2, <2>1
<1>6. CASE s[1] = "authority" /\ d = Rq!AuthorityStep(s, c)
  <2>1. To("authority") \/ To("userOrPort") \/ To("host") \/ To("path") \/ d = Rq!PathEnd(s, c, {})
    BY <1>6 DEF Is, Rq!AuthorityStep, Rq!Stay, Rq!Go, Rq!In, Rq!Pct
  <2> QED BY <1>1, <1>2, <2>1
<1>7. CASE s[1] = "userOrPort" /\ d = Rq!UserOrPortStep(s, c)
  <2>1. Is(d, s, {}) \/ To("user") \/ To("host") \/ To("path") \/ d = Rq!PathEnd(s, c, {})
    BY <1>7 DEF Is, Rq!UserOrPortStep, Rq!Stay, Rq!Go, Rq!In, Rq!Pct
  <2> QED BY <1>1, <1>2, <2>1
<1>8. CASE s[1] = "user" /\ d = Rq!UserStep(s, c)
  <2>1. Is(d, s, {}) \/ To("user") \/ To("host") \/ Fails
    BY <1>8 DEF Is, Rq!UserStep, Rq!Stay, Rq!Go, Rq!In, Rq!Pct, Rq!Fail, Rq!Error, Rq!S
  <2> QED BY <1>1, <1>2, <2>1
<1>9. CASE s[1] = "host" /\ d = Rq!HostStep(s, c)
  <2>1. Is(d, s, {}) \/ To("host") \/ To("port") \/ To("path") \/ d = Rq!PathEnd(s, c, {})
    BY <1>9 DEF Is, Rq!HostStep, Rq!Stay, Rq!Go, Rq!In, Rq!Pct
  <2> QED BY <1>1, <1>2, <2>1
<1>10. CASE s[1] = "port" /\ d = Rq!PortStep(s, c)
  <2>1. Is(d, s, {}) \/ To("path") \/ d = Rq!PathEnd(s, c, {})
    BY <1>10 DEF Is, Rq!PortStep, Rq!Stay, Rq!Go, Rq!In, Rq!Pct
  <2> QED BY <1>1, <1>2, <2>1
<1> QED BY <1>3, <1>4, <1>5, <1>6, <1>7, <1>8, <1>9, <1>10

(* A scheme may turn out to be the first segment of a path. *)
LEMMA RequestScheme ==
    ASSUME NEW s, NEW c, NEW d, NEW m, NEW n, NEW k, RequestFits(s, m, n, k), s[1] = "scheme",
           d = Rq!SchemeStep(s, c)
    PROVE  RequestGood(s, d, m, n, k)
<1> DEFINE u == <<"segment", 0, s[3]>>
<1>1. Is(d, s, {}) \/ Is(d, <<"hier", 0, "http">>, {}) \/ d = Rq!SegmentStep(u, c)
  BY DEF Is, Rq!SchemeStep, Rq!Stay, Rq!Go, Rq!In, Rq!S
<1>2. s[3] = "http" /\ s[1] \in PathNames \ {"target"} /\ {"hier", "segment"} \subseteq PathNames \ {"target"}
  BY DEF RequestFits, RequestAt, PathNames
<1>3. Opens(s, {})
  BY DEF Opens
<1>4. CASE Is(d, s, {})
  BY <1>2, <1>4, RequestOnward DEF Onward
<1>5. CASE Is(d, <<"hier", 0, "http">>, {})
  BY <1>2, <1>3, <1>5, RequestWalks
<1>6. CASE d = Rq!SegmentStep(u, c)
  <2>1. u[1] = "segment" /\ u[3] = s[3]
    OBVIOUS
  <2> HIDE DEF u
  <2>2. Onward(u, d)
    BY <1>6, <2>1, RequestParts
  <2>3. Is(d, u, {}) => Is(d, <<"segment", 0, s[3]>>, {})
    BY DEF u
  <2>4. PathEnds(u, d, {}) => PathEnds(s, d, {})
    BY <2>1 DEF PathEnds
  <2>5. Onward(s, d)
    BY <2>1, <2>2, <2>3, <2>4 DEF Onward, PathNames
  <2> QED BY <1>2, <2>5, RequestOnward
<1> QED BY <1>1, <1>4, <1>5, <1>6

(* Behind the scheme the path is marked again. *)
LEMMA RequestHier ==
    ASSUME NEW s, NEW c, NEW d, NEW m, NEW n, NEW k, RequestFits(s, m, n, k), s[1] = "hier",
           d = Rq!HierStep(s, c)
    PROVE  RequestGood(s, d, m, n, k)
<1>1. \/ Is(d, <<"path", 0, "http">>, {"mark"}) \/ Is(d, <<"path", 1, s[3]>>, {"mark"})
      \/ Is(d, <<"slash", 0, "http">>, {"mark"}) \/ d = Rq!PathEnd(s, c, {"mark"})
  BY DEF Is, Rq!HierStep, Rq!Go, Rq!S, Rq!Pct
<1>2. s[3] = "http" /\ s[1] \in PathNames /\ {"path", "slash"} \subseteq PathNames \ {"target"}
  BY DEF RequestFits, RequestAt, PathNames
<1>3. Opens(s, {"mark"})
  BY <1>2 DEF Opens
<1>4. CASE Is(d, <<"path", 0, "http">>, {"mark"})
  BY <1>2, <1>3, <1>4, RequestWalks
<1>5. CASE Is(d, <<"path", 1, s[3]>>, {"mark"})
  BY <1>2, <1>3, <1>5, RequestWalks
<1>6. CASE Is(d, <<"slash", 0, "http">>, {"mark"})
  BY <1>2, <1>3, <1>6, RequestWalks
<1>7. CASE d = Rq!PathEnd(s, c, {"mark"})
  BY <1>2, <1>3, <1>7, PathEndIs, RequestPathEnd
<1> QED BY <1>1, <1>4, <1>5, <1>6, <1>7

(* The query ... *)
LEMMA RequestQuery ==
    ASSUME NEW s, NEW c, NEW d, NEW m, NEW n, NEW k, RequestFits(s, m, n, k), s[1] \in {"query0", "query"},
           d = Rq!QueryStep(s, c)
    PROVE  RequestGood(s, d, m, n, k)
<1> DEFINE q == IF Rq!At(s) = "query0" THEN {"query_start"} ELSE {}
<1> DEFINE T == {Rq!Go(Rq!S("query"), q),
                 Rq!Go(Rq!Pct(s, "query"), q),
                 Rq!Go(Rq!S("version"), q \cup {"query", "uri"}),
                 Rq!Go(Rq!S("fragment0"), q \cup {"query", "uri"}),
                 Rq!Fail}
<1>a. /\ Rq!Go(Rq!S("query"), q) \in T
      /\ Rq!Go(Rq!Pct(s, "query"), q) \in T
      /\ Rq!Go(Rq!S("version"), q \cup {"query", "uri"}) \in T
      /\ Rq!Go(Rq!S("fragment0"), q \cup {"query", "uri"}) \in T
      /\ Rq!Fail \in T
  OBVIOUS
<1> HIDE DEF T
<1>b. Rq!QueryStep(s, c) \in T
  BY <1>a, Zenon DEF Rq!QueryStep
<1>1. \/ Is(d, <<"query", 0, "http">>, q) \/ Is(d, <<"query", 1, s[3]>>, q)
      \/ Is(d, <<"version", 0, "http">>, q \cup {"query", "uri"})
      \/ Is(d, <<"fragment0", 0, "http">>, q \cup {"query", "uri"})
      \/ Is(d, <<"error", 0, "http">>, {})
  BY <1>b DEF T, Is, Rq!Go, Rq!S, Rq!Pct, Rq!Fail, Rq!Stay, Rq!Error
<1>2. q \subseteq {"mark", "field_start", "field_len", "query_start"} /\ "mark" \notin q
      /\ (q \cup {"query", "uri"}) \cap Callbacks = {"query", "uri"}
  BY DEF Callbacks, Rq!At
<1> HIDE DEF q
<1>3. k = <<"method", "path">> /\ m = "target" /\ s[3] \in {"http", "json"}
  BY DEF RequestFits, RequestAt, RequestCalls, RequestMark
<1>4. ASSUME NEW b, NEW e \in {"http", "json"}, Is(d, <<"query", b, e>>, q) PROVE RequestGood(s, d, m, n, k)
  <2>0. k \in Seq(Callbacks)
    BY RequestSeq
  <2>1. \A x : RequestAt("query", b, e, "target", x, <<"method", "path">>)
    BY DEF RequestAt, RequestCalls, RequestMark, RequestName, PathNames, FieldNames
  <2>2. MarkAfter(s, d, m) = "target"
    BY <1>2, <1>3, <1>4 DEF MarkAfter, Is
  <2>3. RequestFits(<<"query", b, e>>, MarkAfter(s, d, m), NameAfter(d, n), k)
    BY <1>3, <2>1, <2>2, FitsWhere
  <2> QED BY <1>2, <1>4, <2>0, <2>3, RequestSilent
<1>5. ASSUME NEW a, a \in {"version", "fragment0"}, Is(d, <<a, 0, "http">>, q \cup {"query", "uri"})
      PROVE  RequestGood(s, d, m, n, k)
  <2>2. Add(k, <<"query", "uri">>) \in Targets /\ Add(k, <<"query", "uri">>) \in Versions
    BY <1>3, RequestOrder
  <2>4. MarkAfter(s, d, m) = "target"
    BY <1>2, <1>3, <1>5 DEF MarkAfter, Is
  <2>1. \A x, z : z \in Targets /\ z \in Versions => RequestAt(a, 0, "http", "target", x, z)
    BY <1>5 DEF RequestAt, RequestCalls, RequestMark, RequestName, PathNames, FieldNames
  <2>3. RequestFits(<<a, 0, "http">>, MarkAfter(s, d, m), NameAfter(d, n), Add(k, <<"query", "uri">>))
    BY <2>1, <2>2, <2>4, FitsWhere
  <2> QED BY <1>2, <1>5, <2>3, <2>4, RequestSaysUri
<1> QED BY <1>1, <1>3, <1>4, <1>5, RequestFails

(* ... the fragment ... *)
LEMMA RequestFragment ==
    ASSUME NEW s, NEW c, NEW d, NEW m, NEW n, NEW k, RequestFits(s, m, n, k), s[1] \in {"fragment0", "fragment"},
           d = Rq!FragmentStep(s, c)
    PROVE  RequestGood(s, d, m, n, k)
<1> DEFINE q == IF Rq!At(s) = "fragment0" THEN {"mark"} ELSE {}
<1> DEFINE T == {Rq!Go(Rq!S("fragment"), q),
                 Rq!Go(Rq!Pct(s, "fragment"), q),
                 Rq!Go(Rq!S("version"), q \cup {"fragment"}),
                 Rq!Fail}
<1>a. /\ Rq!Go(Rq!S("fragment"), q) \in T
      /\ Rq!Go(Rq!Pct(s, "fragment"), q) \in T
      /\ Rq!Go(Rq!S("version"), q \cup {"fragment"}) \in T
      /\ Rq!Fail \in T
  OBVIOUS
<1> HIDE DEF T
<1>b. Rq!FragmentStep(s, c) \in T
  BY <1>a, Zenon DEF Rq!FragmentStep
<1>1. \/ Is(d, <<"fragment", 0, "http">>, q) \/ Is(d, <<"fragment", 1, s[3]>>, q)
      \/ Is(d, <<"version", 0, "http">>, q \cup {"fragment"})
      \/ Is(d, <<"error", 0, "http">>, {})
  BY <1>b DEF T, Is, Rq!Go, Rq!S, Rq!Pct, Rq!Fail, Rq!Stay, Rq!Error
<1>2. q \subseteq {"mark", "field_start", "field_len", "query_start"} /\ "fragment" \in Callbacks
      /\ (q \cup {"fragment"}) \cap Callbacks = {"fragment"} /\ "fragment" \in OwnParts["fragment"]
  BY DEF Callbacks, OwnParts, Rq!At
<1>3. k \in Targets /\ s[3] \in {"http", "json"}
  BY DEF RequestFits, RequestAt, RequestCalls
<1>6. (d.acts = q \/ d.acts = q \cup {"fragment"}) => MarkAfter(s, d, m) = "fragment"
  BY PartIs DEF Rq!At, MarkAfter, RequestFits, RequestAt, RequestMark
<1> HIDE DEF q
<1>4. ASSUME NEW b, NEW e \in {"http", "json"}, Is(d, <<"fragment", b, e>>, q) PROVE RequestGood(s, d, m, n, k)
  <2>0. k \in Seq(Callbacks)
    BY RequestSeq
  <2>1. \A x : RequestAt("fragment", b, e, "fragment", x, k)
    BY <1>3 DEF RequestAt, RequestCalls, RequestMark, RequestName, PathNames, FieldNames
  <2>2. MarkAfter(s, d, m) = "fragment"
    BY <1>6, <1>4 DEF Is
  <2>3. RequestFits(<<"fragment", b, e>>, MarkAfter(s, d, m), NameAfter(d, n), k)
    BY <2>1, <2>2, FitsWhere
  <2> QED BY <1>2, <1>4, <2>0, <2>3, RequestSilent
<1>5. CASE Is(d, <<"version", 0, "http">>, q \cup {"fragment"})
  <2>2. Add(k, <<"fragment">>) \in Versions
    BY <1>3, RequestOrder
  <2>4. MarkAfter(s, d, m) = "fragment"
    BY <1>5, <1>6 DEF Is
  <2>1. \A x, y, z : z \in Versions => RequestAt("version", 0, "http", y, x, z)
    BY DEF RequestAt, RequestCalls, RequestMark, RequestName, PathNames, FieldNames
  <2>3. RequestFits(<<"version", 0, "http">>, MarkAfter(s, d, m), NameAfter(d, n), Add(k, <<"fragment">>))
    BY <2>1, <2>2, FitsWhere
  <2> QED BY <1>2, <1>5, <2>3, <2>4, RequestSays
<1> QED BY <1>1, <1>3, <1>4, <1>5, RequestFails

(* ... and the version. *)
LEMMA RequestVersion ==
    ASSUME NEW s, NEW c, NEW d, NEW m, NEW n, NEW k, RequestFits(s, m, n, k), s[1] = "version",
           d = Rq!VersionStep(s, c)
    PROVE  RequestGood(s, d, m, n, k)
<1>1. \/ Is(d, Rq!Further(s), IF s[2] = 0 THEN {"mark"} ELSE {})
      \/ s[2] = Len(Rq!Word) /\ Is(d, Rq!Further(s), {})
      \/ s[2] > Len(Rq!Word) /\ Is(d, <<"crlf", 0, "http">>, {"version"})
      \/ s[2] > Len(Rq!Word) /\ Is(d, <<"header", 0, "http">>, {"version"})
      \/ Is(d, <<"error", 0, "http">>, {})
  BY DEF Is, Rq!VersionStep, Rq!Go, Rq!S, Rq!Fail, Rq!Stay, Rq!Error
<1>2. Len(Rq!Word) = 7
  BY DEF Rq!Word
<1>3. k \in Versions /\ DOMAIN s = 1 .. 3 /\ (s[2] # 0 => m = "version") /\ k \in Seq(Callbacks)
  BY RequestSeq DEF RequestFits, RequestAt, RequestCalls, RequestMark
<1>4. DOMAIN Rq!Further(s) = 1 .. 3 /\ Rq!Further(s)[1] = s[1] /\ Rq!Further(s)[3] = s[3]
  BY <1>3 DEF Rq!Further
<1>5. CASE s[2] = 0 /\ Is(d, Rq!Further(s), {"mark"})
  <2>1. MarkAfter(s, d, m) = "version" /\ NameAfter(d, n) = [start |-> n.start, len |-> n.len]
    BY <1>5, PartIs DEF MarkAfter, NameAfter, Is
  <2>2. RequestAt("version", Rq!Further(s)[2], s[3], "version", [start |-> n.start, len |-> n.len], k)
    BY <1>3 DEF RequestFits, RequestAt, RequestCalls, RequestMark, RequestName, PathNames, FieldNames
  <2>3. RequestFits(Rq!Further(s), MarkAfter(s, d, m), NameAfter(d, n), k)
    BY <1>4, <2>1, <2>2 DEF RequestFits
  <2>4. {"mark"} \subseteq {"mark", "field_start", "field_len", "query_start"}
    OBVIOUS
  <2> QED BY <1>3, <1>5, <2>3, <2>4, RequestSilent
<1>6. CASE s[2] # 0 /\ Is(d, Rq!Further(s), {})
  BY <1>3, <1>4, <1>6, RequestStays
<1>7. ASSUME NEW a, a \in {"crlf", "header"}, s[2] > 7, Is(d, <<a, 0, "http">>, {"version"})
      PROVE  RequestGood(s, d, m, n, k)
  <2>1. "version" \in Callbacks /\ {"version"} \cap Callbacks = {"version"} /\ "version" \in OwnParts["version"]
    BY DEF Callbacks, OwnParts
  <2>2. s[2] # 0
    BY <1>7
  <2>3. MarkAfter(s, d, m) = "version"
    BY <1>3, <1>7, <2>2 DEF MarkAfter, Is
  <2>4. Add(k, <<"version">>) \in Heads
    BY <1>3, RequestOrder
  <2>5. \A x, y, z : z \in Heads => RequestAt(a, 0, "http", y, x, z)
    BY <1>7 DEF RequestAt, RequestCalls, RequestMark, RequestName, PathNames, FieldNames
  <2>6. RequestFits(<<a, 0, "http">>, MarkAfter(s, d, m), NameAfter(d, n), Add(k, <<"version">>))
    BY <2>4, <2>5, FitsWhere
  <2> QED BY <1>7, <2>1, <2>3, <2>6, RequestSays
<1> QED BY <1>1, <1>2, <1>5, <1>6, <1>7, RequestFails

(* The end of a message. *)
LEMMA RequestDone ==
    ASSUME NEW s, NEW d, NEW acts, NEW m, NEW n, NEW k, Is(d, <<"final", 0, "http">>, acts),
           acts \cap Callbacks = {"done"}, Add(k, <<"done">>) \in Orders
    PROVE  RequestGood(s, d, m, n, k)
<1>1. "done" \in Callbacks /\ "done" \notin DOMAIN OwnParts
  BY DEF Callbacks, OwnParts
<1>2. \A x, y, z : z \in Orders => RequestAt("final", 0, "http", x, y, z)
  BY DEF RequestAt, RequestCalls, RequestMark, RequestName, PathNames, FieldNames
<1>3. RequestFits(<<"final", 0, "http">>, MarkAfter(s, d, m), NameAfter(d, n), Add(k, <<"done">>))
  BY <1>2, FitsWhere
<1> QED BY <1>1, <1>3, RequestSays

(* The header fields: the beginning of a line ... *)
LEMMA RequestHeader ==
    ASSUME NEW s, NEW c, NEW d, NEW m, NEW n, NEW k, RequestFits(s, m, n, k), s[1] = "header",
           d = Rq!HeaderStep(s, c)
    PROVE  RequestGood(s, d, m, n, k)
<1> DEFINE T == {Rq!Go(Rq!S("final"), {"field_start", "done"}), Rq!Go(Rq!S("lastcr"), {"field_start"}),
                 Rq!Go(Rq!S("name"), {"field_start"}), Rq!Fail}
<1>a. /\ Rq!Go(Rq!S("final"), {"field_start", "done"}) \in T /\ Rq!Go(Rq!S("lastcr"), {"field_start"}) \in T
      /\ Rq!Go(Rq!S("name"), {"field_start"}) \in T /\ Rq!Fail \in T
  OBVIOUS
<1> HIDE DEF T
<1>b. Rq!HeaderStep(s, c) \in T
  BY <1>a, Zenon DEF Rq!HeaderStep
<1>1. \/ Is(d, <<"final", 0, "http">>, {"field_start", "done"})
      \/ \E a \in {"lastcr", "name"} : Is(d, <<a, 0, "http">>, {"field_start"})
      \/ Is(d, <<"error", 0, "http">>, {})
  BY <1>b DEF T, Is, Rq!Go, Rq!S, Rq!Fail, Rq!Stay, Rq!Error
<1>2. k \in Heads /\ k \in Seq(Callbacks)
  BY RequestSeq DEF RequestFits, RequestAt, RequestCalls, FieldNames
<1>3. ASSUME NEW a \in {"lastcr", "name"}, Is(d, <<a, 0, "http">>, {"field_start"})
      PROVE  RequestGood(s, d, m, n, k)
  <2>1. NameAfter(d, n).start = 1
    BY <1>3 DEF NameAfter, Is
  <2>2. \A x, y : y.start = 1 => RequestAt(a, 0, "http", x, y, k)
    BY <1>2, <1>3 DEF RequestAt, RequestCalls, RequestMark, RequestName, PathNames, FieldNames
  <2>3. RequestFits(<<a, 0, "http">>, MarkAfter(s, d, m), NameAfter(d, n), k)
    BY <2>1, <2>2, FitsWhere
  <2>4. {"field_start"} \subseteq {"mark", "field_start", "field_len", "query_start"}
    OBVIOUS
  <2> QED BY <1>2, <1>3, <2>3, <2>4, RequestSilent
<1>4. ASSUME Is(d, <<"final", 0, "http">>, {"field_start", "done"}) PROVE RequestGood(s, d, m, n, k)
  <2>1. {"field_start", "done"} \cap Callbacks = {"done"}
    BY DEF Callbacks
  <2> QED BY <1>2, <1>4, <2>1, RequestOrder, RequestDone
<1> QED BY <1>1, <1>3, <1>4, RequestFails

(* ... a name ... *)
LEMMA RequestFieldName ==
    ASSUME NEW s, NEW c, NEW d, NEW m, NEW n, NEW k, RequestFits(s, m, n, k), s[1] \in {"name", "lastcr"},
           d = Rq!NameStep(s, c)
    PROVE  RequestGood(s, d, m, n, k)
<1> DEFINE T == {Rq!Go(Rq!S("lws"), {"field_len"}), Rq!Go(Rq!S("final"), {"done"}), Rq!Stay(Rq!S("name")), Rq!Fail}
<1>a. /\ Rq!Go(Rq!S("lws"), {"field_len"}) \in T /\ Rq!Go(Rq!S("final"), {"done"}) \in T
      /\ Rq!Stay(Rq!S("name")) \in T /\ Rq!Fail \in T
  OBVIOUS
<1> HIDE DEF T
<1>b. Rq!NameStep(s, c) \in T
  BY <1>a, Zenon DEF Rq!NameStep
<1>1. \/ Is(d, <<"lws", 0, "http">>, {"field_len"}) \/ Is(d, <<"final", 0, "http">>, {"done"})
      \/ Is(d, <<"name", 0, "http">>, {}) \/ Is(d, <<"error", 0, "http">>, {})
  BY <1>b DEF T, Is, Rq!Go, Rq!S, Rq!Fail, Rq!Stay, Rq!Error
<1>2. k \in Heads /\ k \in Seq(Callbacks) /\ n.start = 1
  BY RequestSeq DEF RequestFits, RequestAt, RequestCalls, RequestName, FieldNames
<1>3. {} \subseteq {"mark", "field_start", "field_len", "query_start"}
      /\ {"field_len"} \subseteq {"mark", "field_start", "field_len", "query_start"}
  OBVIOUS
<1>4. ASSUME Is(d, <<"name", 0, "http">>, {}) PROVE RequestGood(s, d, m, n, k)
  <2>1. NameAfter(d, n).start = 1
    BY <1>2, <1>4 DEF NameAfter, Is
  <2>2. \A x, y : y.start = 1 => RequestAt("name", 0, "http", x, y, k)
    BY <1>2 DEF RequestAt, RequestCalls, RequestMark, RequestName, PathNames, FieldNames
  <2>3. RequestFits(<<"name", 0, "http">>, MarkAfter(s, d, m), NameAfter(d, n), k)
    BY <2>1, <2>2, FitsWhere
  <2> QED BY <1>2, <1>3, <1>4, <2>3, RequestSilent
<1>5. ASSUME Is(d, <<"lws", 0, "http">>, {"field_len"}) PROVE RequestGood(s, d, m, n, k)
  <2>1. NameAfter(d, n) = [start |-> 1, len |-> 1]
    BY <1>2, <1>5 DEF NameAfter, Is
  <2>2. \A x : RequestAt("lws", 0, "http", x, [start |-> 1, len |-> 1], k)
    BY <1>2 DEF RequestAt, RequestCalls, RequestMark, RequestName, PathNames, FieldNames
  <2>3. RequestFits(<<"lws", 0, "http">>, MarkAfter(s, d, m), NameAfter(d, n), k)
    BY <2>1, <2>2, FitsWhere
  <2> QED BY <1>2, <1>3, <1>5, <2>3, RequestSilent
<1>6. ASSUME Is(d, <<"final", 0, "http">>, {"done"}) PROVE RequestGood(s, d, m, n, k)
  <2>1. {"done"} \cap Callbacks = {"done"}
    BY DEF Callbacks
  <2> QED BY <1>2, <1>6, <2>1, RequestOrder, RequestDone
<1> QED BY <1>1, <1>4, <1>5, <1>6, RequestFails

(* ... the report of a field ... *)
LEMMA RequestField ==
    ASSUME NEW s, NEW d, NEW a, NEW acts, NEW m, NEW n, NEW k, RequestFits(s, m, n, k),
           (s[1] = "lws" /\ acts = {"mark", "field"}) \/ (s[1] = "value" /\ acts = {"field"}),
           a \in {"crlf", "header"}, Is(d, <<a, 0, "http">>, acts)
    PROVE  RequestGood(s, d, m, n, k)
<1>1. k \in Heads /\ n = [start |-> 1, len |-> 1]
  BY DEF RequestFits, RequestAt, RequestCalls, RequestName, FieldNames
<1>2. NameAfter(d, n) = [start |-> 1, len |-> 1]
  BY <1>1 DEF NameAfter, Is
<1>3. MarkAfter(s, d, m) = "value"
  BY PartIs DEF MarkAfter, Is, RequestFits, RequestAt, RequestMark
<1>4. "field" \in Callbacks /\ acts \cap Callbacks = {"field"} /\ "value" \in OwnParts["field"]
  BY DEF Callbacks, OwnParts
<1>5. Add(k, <<"field">>) \in Heads
  BY <1>1, RequestOrder
<1>6. \A x, y, z : z \in Heads => RequestAt(a, 0, "http", x, y, z)
  BY DEF RequestAt, RequestCalls, RequestMark, RequestName, PathNames, FieldNames
<1>7. RequestFits(<<a, 0, "http">>, MarkAfter(s, d, m), NameAfter(d, n), Add(k, <<"field">>))
  BY <1>5, <1>6, FitsWhere
<1> QED BY <1>2, <1>3, <1>4, <1>7, RequestSays

(* ... its value ... *)
LEMMA RequestLws ==
    ASSUME NEW s, NEW c, NEW d, NEW m, NEW n, NEW k, RequestFits(s, m, n, k), s[1] = "lws",
           d = Rq!LwsStep(s, c)
    PROVE  RequestGood(s, d, m, n, k)
<1> DEFINE T == {Rq!Go(s, {"mark"}), Rq!Go(Rq!S("value"), {"mark"}), Rq!Go(Rq!S("crlf"), {"mark", "field"}),
                 Rq!Go(Rq!S("header"), {"mark", "field"}), Rq!Fail}
<1>a. /\ Rq!Go(s, {"mark"}) \in T /\ Rq!Go(Rq!S("value"), {"mark"}) \in T
      /\ Rq!Go(Rq!S("crlf"), {"mark", "field"}) \in T /\ Rq!Go(Rq!S("header"), {"mark", "field"}) \in T
      /\ Rq!Fail \in T
  OBVIOUS
<1> HIDE DEF T
<1>b. Rq!LwsStep(s, c) \in T
  BY <1>a, Zenon DEF Rq!LwsStep
<1>1. \/ Is(d, s, {"mark"}) \/ Is(d, <<"value", 0, "http">>, {"mark"})
      \/ Is(d, <<"crlf", 0, "http">>, {"mark", "field"}) \/ Is(d, <<"header", 0, "http">>, {"mark", "field"})
      \/ Is(d, <<"error", 0, "http">>, {})
  BY <1>b DEF T, Is, Rq!Go, Rq!S, Rq!Fail, Rq!Stay, Rq!Error
<1>2. k \in Heads /\ k \in Seq(Callbacks) /\ n = [start |-> 1, len |-> 1] /\ Part(s) = "value"
  BY PartIs, RequestSeq DEF RequestFits, RequestAt, RequestCalls, RequestName, FieldNames
<1>3. {"mark"} \subseteq {"mark", "field_start", "field_len", "query_start"}
  OBVIOUS
<1>4. ASSUME d.acts = {"mark"}
      PROVE  MarkAfter(s, d, m) = "value" /\ NameAfter(d, n) = [start |-> 1, len |-> 1]
  BY <1>2, <1>4 DEF MarkAfter, NameAfter
<1>5. ASSUME Is(d, s, {"mark"}) PROVE RequestGood(s, d, m, n, k)
  <2>1. RequestFits(s, "value", [start |-> 1, len |-> 1], k)
    BY <1>2 DEF RequestFits, RequestAt, RequestMark, RequestName, PathNames, FieldNames
  <2>2. d.acts = {"mark"}
    BY <1>5 DEF Is
  <2> QED BY <1>2, <1>3, <1>4, <1>5, <2>1, <2>2, RequestSilent
<1>6. ASSUME Is(d, <<"value", 0, "http">>, {"mark"}) PROVE RequestGood(s, d, m, n, k)
  <2>1. RequestAt("value", 0, "http", "value", [start |-> 1, len |-> 1], k)
    BY <1>2 DEF RequestAt, RequestCalls, RequestMark, RequestName, PathNames, FieldNames
  <2>2. d.acts = {"mark"}
    BY <1>6 DEF Is
  <2>3. RequestFits(<<"value", 0, "http">>, MarkAfter(s, d, m), NameAfter(d, n), k)
    BY <1>4, <2>1, <2>2, FitsWhere
  <2> QED BY <1>2, <1>3, <1>6, <2>3, RequestSilent
<1> QED BY <1>1, <1>5, <1>6, RequestField, RequestFails

(* ... which goes on to the end of the line ... *)
LEMMA RequestValue ==
    ASSUME NEW s, NEW c, NEW d, NEW m, NEW n, NEW k, RequestFits(s, m, n, k), s[1] = "value",
           d = Rq!ValueStep(s, c)
    PROVE  RequestGood(s, d, m, n, k)
<1> DEFINE T == {Rq!Stay(s), Rq!Go(Rq!S("crlf"), {"field"}), Rq!Go(Rq!S("header"), {"field"}), Rq!Fail}
<1>a. /\ Rq!Stay(s) \in T /\ Rq!Go(Rq!S("crlf"), {"field"}) \in T
      /\ Rq!Go(Rq!S("header"), {"field"}) \in T /\ Rq!Fail \in T
  OBVIOUS
<1> HIDE DEF T
<1>b. Rq!ValueStep(s, c) \in T
  BY <1>a, Zenon DEF Rq!ValueStep
<1>1. \/ Is(d, s, {}) \/ Is(d, <<"crlf", 0, "http">>, {"field"}) \/ Is(d, <<"header", 0, "http">>, {"field"})
      \/ Is(d, <<"error", 0, "http">>, {})
  BY <1>b DEF T, Is, Rq!Go, Rq!S, Rq!Fail, Rq!Stay, Rq!Error
<1>2. k \in Seq(Callbacks) /\ DOMAIN s = 1 .. 3
  BY RequestSeq DEF RequestFits, FieldNames
<1>3. ASSUME Is(d, s, {}) PROVE RequestGood(s, d, m, n, k)
  BY <1>2, <1>3, RequestStays
<1> QED BY <1>1, <1>3, RequestField, RequestFails

(* ... and its line break. *)
LEMMA RequestCrlf ==
    ASSUME NEW s, NEW c, NEW d, NEW m, NEW n, NEW k, RequestFits(s, m, n, k), s[1] = "crlf",
           d = Rq!CrlfStep(s, c)
    PROVE  RequestGood(s, d, m, n, k)
<1>1. Is(d, <<"header", 0, "http">>, {}) \/ Is(d, <<"error", 0, "http">>, {})
  BY DEF Is, Rq!CrlfStep, Rq!Go, Rq!S, Rq!Fail, Rq!Stay, Rq!Error
<1>2. k \in Heads /\ k \in Seq(Callbacks)
  BY RequestSeq DEF RequestFits, RequestAt, RequestCalls, FieldNames
<1>3. ASSUME Is(d, <<"header", 0, "http">>, {}) PROVE RequestGood(s, d, m, n, k)
  <2>1. \A x, y : RequestAt("header", 0, "http", x, y, k)
    BY <1>2 DEF RequestAt, RequestCalls, RequestMark, RequestName, PathNames, FieldNames
  <2>2. RequestFits(<<"header", 0, "http">>, MarkAfter(s, d, m), NameAfter(d, n), k)
    BY <2>1, FitsWhere
  <2>3. {} \subseteq {"mark", "field_start", "field_len", "query_start"}
    OBVIOUS
  <2> QED BY <1>2, <1>3, <2>2, <2>3, RequestSilent
<1> QED BY <1>1, <1>3, RequestFails

(* The messages that are not HTTP: "<name ...>" ... *)
LEMMA RequestXmlName ==
    ASSUME NEW s, NEW c, NEW d, NEW m, NEW n, NEW k, RequestFits(s, m, n, k), s[1] = "xmlName",
           d = Rq!XmlNameStep(s, c)
    PROVE  RequestGood(s, d, m, n, k)
<1> DEFINE T == {Rq!Stay(<<"xmlName", 1, "http">>), Rq!Go(Rq!S("xml"), {"path"}), Rq!Fail}
<1>a. Rq!Stay(<<"xmlName", 1, "http">>) \in T /\ Rq!Go(Rq!S("xml"), {"path"}) \in T /\ Rq!Fail \in T
  OBVIOUS
<1> HIDE DEF T
<1>b. Rq!XmlNameStep(s, c) \in T
  BY <1>a, Zenon DEF Rq!XmlNameStep
<1>1. Is(d, <<"xmlName", 1, "http">>, {}) \/ Is(d, <<"xml", 0, "http">>, {"path"}) \/ Is(d, <<"error", 0, "http">>, {})
  BY <1>b DEF T, Is, Rq!Go, Rq!S, Rq!Fail, Rq!Stay, Rq!Error
<1>0. k \in Seq(Callbacks)
  BY RequestSeq
<1>2. k = <<>> /\ m = "first"
  BY DEF RequestFits, RequestAt, RequestCalls, RequestMark
<1>3. ASSUME Is(d, <<"xmlName", 1, "http">>, {}) PROVE RequestGood(s, d, m, n, k)
  <2>1. \A x : RequestAt("xmlName", 1, "http", "first", x, <<>>)
    BY DEF RequestAt, RequestCalls, RequestMark, RequestName, PathNames, FieldNames
  <2>2. MarkAfter(s, d, m) = "first"
    BY <1>2, <1>3 DEF MarkAfter, Is
  <2>3. RequestFits(<<"xmlName", 1, "http">>, MarkAfter(s, d, m), NameAfter(d, n), k)
    BY <1>2, <2>1, <2>2, FitsWhere
  <2>4. {} \subseteq {"mark", "field_start", "field_len", "query_start"}
    OBVIOUS
  <2> QED BY <1>0, <1>3, <2>3, <2>4, RequestSilent
<1>4. ASSUME Is(d, <<"xml", 0, "http">>, {"path"}) PROVE RequestGood(s, d, m, n, k)
  <2>1. "path" \in Callbacks /\ {"path"} \cap Callbacks = {"path"} /\ "first" \in OwnParts["path"]
    BY DEF Callbacks, OwnParts
  <2>2. MarkAfter(s, d, m) = "first"
    BY <1>2, <1>4 DEF MarkAfter, Is
  <2>3. \A x, y : RequestAt("xml", 0, "http", x, y, <<"path">>)
    BY DEF RequestAt, RequestCalls, RequestMark, RequestName, PathNames, FieldNames
  <2>4. Add(k, <<"path">>) = <<"path">>
    BY <1>2, RequestOrder
  <2>5. RequestFits(<<"xml", 0, "http">>, MarkAfter(s, d, m), NameAfter(d, n), Add(k, <<"path">>))
    BY <2>3, <2>4, FitsWhere
  <2> QED BY <1>4, <2>1, <2>2, <2>5, RequestSays
<1> QED BY <1>1, <1>3, <1>4, RequestFails

(* ... and "@path {...}", whose bodies are read alike. *)
LEMMA RequestBody ==
    ASSUME NEW s, NEW c, NEW d, NEW m, NEW n, NEW k, RequestFits(s, m, n, k),
           \/ s[1] \in {"xml", "xmlClose"} /\ d = Rq!XmlStep(s, c)
           \/ s[1] = "brace" /\ d = Rq!BraceStep(s, c)
           \/ s[1] \in {"json", "jsonClose"} /\ d = Rq!JsonStep(s, c)
    PROVE  RequestGood(s, d, m, n, k)
<1>1. k = <<"path">> /\ k \in Seq(Callbacks)
  BY RequestSeq DEF RequestFits, RequestAt, RequestCalls
<1>2. ASSUME NEW a \in {"xml", "xmlClose", "json", "jsonClose"}, NEW acts \in {{}, {"mark"}},
             Is(d, <<a, 0, "http">>, acts)
      PROVE  RequestGood(s, d, m, n, k)
  <2>1. \A x, y : RequestAt(a, 0, "http", x, y, <<"path">>)
    BY <1>2 DEF RequestAt, RequestCalls, RequestMark, RequestName, PathNames, FieldNames
  <2>2. RequestFits(<<a, 0, "http">>, MarkAfter(s, d, m), NameAfter(d, n), k)
    BY <1>1, <2>1, FitsWhere
  <2>3. acts \subseteq {"mark", "field_start", "field_len", "query_start"}
    BY <1>2
  <2> QED BY <1>1, <1>2, <2>2, <2>3, RequestSilent
<1>3. ASSUME NEW x \in {"xml", "json"}, Is(d, <<"final", 0, "http">>, {x, "done"}) PROVE RequestGood(s, d, m, n, k)
  <2>1. {x, "done"} \cap Callbacks = {"done"}
    BY <1>3 DEF Callbacks
  <2> QED BY <1>1, <1>3, <2>1, RequestOrder, RequestDone
<1>4. CASE d = Rq!XmlStep(s, c)
  <2> DEFINE T == {Rq!Stay(Rq!S("xmlClose")), Rq!Go(Rq!S("final"), {"xml", "done"}), Rq!Stay(Rq!S("xml"))}
  <2>1. /\ Rq!Stay(Rq!S("xmlClose")) \in T /\ Rq!Go(Rq!S("final"), {"xml", "done"}) \in T
        /\ Rq!Stay(Rq!S("xml")) \in T
    OBVIOUS
  <2> HIDE DEF T
  <2>2. Rq!XmlStep(s, c) \in T
    BY <2>1, Zenon DEF Rq!XmlStep
  <2>3. \/ Is(d, <<"xmlClose", 0, "http">>, {}) \/ Is(d, <<"xml", 0, "http">>, {})
        \/ Is(d, <<"final", 0, "http">>, {"xml", "done"})
    BY <1>4, <2>2 DEF T, Is, Rq!Go, Rq!S, Rq!Stay
  <2> QED BY <1>2, <1>3, <2>3
<1>5. CASE d = Rq!JsonStep(s, c)
  <2> DEFINE T == {Rq!Stay(Rq!S("jsonClose")), Rq!Go(Rq!S("final"), {"json", "done"}), Rq!Stay(Rq!S("json"))}
  <2>1. /\ Rq!Stay(Rq!S("jsonClose")) \in T /\ Rq!Go(Rq!S("final"), {"json", "done"}) \in T
        /\ Rq!Stay(Rq!S("json")) \in T
    OBVIOUS
  <2> HIDE DEF T
  <2>2. Rq!JsonStep(s, c) \in T
    BY <2>1, Zenon DEF Rq!JsonStep
  <2>3. \/ Is(d, <<"jsonClose", 0, "http">>, {}) \/ Is(d, <<"json", 0, "http">>, {})
        \/ Is(d, <<"final", 0, "http">>, {"json", "done"})
    BY <1>5, <2>2 DEF T, Is, Rq!Go, Rq!S, Rq!Stay
  <2> QED BY <1>2, <1>3, <2>3
<1>6. CASE d = Rq!BraceStep(s, c)
  <2>1. Is(d, <<"json", 0, "http">>, {"mark"}) \/ Is(d, <<"error", 0, "http">>, {})
    BY <1>6 DEF Is, Rq!BraceStep, Rq!Go, Rq!S, Rq!Fail, Rq!Stay, Rq!Error
  <2> QED BY <1>2, <2>1, RequestFails
<1> QED BY <1>4, <1>5, <1>6

(* The digits of an escape. *)
LEMMA RequestPct ==
    ASSUME NEW s, NEW c, NEW d, NEW m, NEW n, NEW k, RequestFits(s, m, n, k), Reading(s),
           s[1] \notin {"method", "version", "xmlName"}, d = Rq!PctStep(s, c)
    PROVE  RequestGood(s, d, m, n, k)
<1> DEFINE t == [s EXCEPT ![2] = (s[2] + 1) % 3]
<1>1. Is(d, t, {}) \/ Is(d, <<"error", 0, "http">>, {})
  BY DEF Is, Rq!PctStep, Rq!Go, Rq!S, Rq!Fail, Rq!Stay, Rq!Error
<1>2. DOMAIN t = 1 .. 3 /\ t[1] = s[1] /\ t[3] = s[3]
  BY DEF RequestFits
<1> HIDE DEF t
<1>3. CASE Is(d, t, {})
  <2>1. CASE k \in Seq(Callbacks)
    BY <1>2, <1>3, <2>1, RequestStays
  <2>2. CASE k \notin Seq(Callbacks)
    <3>1. s[1] \notin {"start", "method", "xmlName", "query0", "query", "fragment0", "fragment", "version",
                       "xml", "xmlClose", "brace", "json", "jsonClose"} \cup FieldNames \cup PathNames
      BY <2>2, RequestSeq
    <3>2. \A x, y, z, b, e : e \in {"http", "json"} => RequestAt(s[1], b, e, x, y, z)
      BY <3>1 DEF RequestAt, RequestCalls, RequestMark, RequestName, PathNames, FieldNames, Reading
    <3>3. d.to = t /\ d.acts = {}
      BY <1>3 DEF Is
    <3>4. RequestFits(d.to, MarkAfter(s, d, m), NameAfter(d, n), Add(k, Made(d.acts)))
      BY <1>2, <3>2, <3>3 DEF RequestFits, RequestAt
    <3>5. Owned(d, MarkAfter(s, d, m), NameAfter(d, n))
      BY <3>3 DEF Owned
    <3> QED BY <3>4, <3>5 DEF RequestGood
  <2> QED BY <2>1, <2>2
<1> QED BY <1>1, <1>3, RequestFails

(* Any character of a request: the switch over the states. *)
LEMMA RequestDelta ==
    ASSUME NEW s, NEW c, NEW m, NEW n, NEW k, RequestFits(s, m, n, k), Reading(s)
    PROVE  RequestGood(s, Rq!Delta(s, c), m, n, k)
<1> DEFINE Good(d) == RequestGood(s, d, m, n, k)
<1>1. {"segment", "path", "slash", "authority", "userOrPort", "user", "host", "port"} \subseteq PathNames \ {"target"}
  BY DEF PathNames
<1>2. \A d : Onward(s, d) /\ s[1] \in PathNames \ {"target"} => Good(d)
  BY RequestOnward
<1>3. s[1] \in Rq!TargetStates => Good(Rq!TargetDelta(s, c))
  <2>1. s[1] = "target" => Good(Rq!TargetStep(s, c))
    BY RequestTarget
  <2>2. s[1] = "segment" => Good(Rq!SegmentStep(s, c))
    BY <1>1, <1>2, RequestParts
  <2>3. s[1] = "path" => Good(Rq!PathStep(s, c))
    BY <1>1, <1>2, RequestParts
  <2>4. s[1] = "slash" => Good(Rq!SlashStep(s, c))
    BY <1>1, <1>2, RequestParts
  <2>5. s[1] = "scheme" => Good(Rq!SchemeStep(s, c))
    BY RequestScheme
  <2>6. s[1] = "hier" => Good(Rq!HierStep(s, c))
    BY RequestHier
  <2> HIDE DEF Good
  <2> QED BY <2>1, <2>2, <2>3, <2>4, <2>5, <2>6, Zenon DEF Rq!TargetDelta, Rq!TargetStates, Rq!At
<1>4. s[1] \in Rq!HostStates => Good(Rq!HostDelta(s, c))
  <2>1. s[1] = "authority" => Good(Rq!AuthorityStep(s, c))
    BY <1>1, <1>2, RequestParts
  <2>2. s[1] = "userOrPort" => Good(Rq!UserOrPortStep(s, c))
    BY <1>1, <1>2, RequestParts
  <2>3. s[1] = "user" => Good(Rq!UserStep(s, c))
    BY <1>1, <1>2, RequestParts
  <2>4. s[1] = "host" => Good(Rq!HostStep(s, c))
    BY <1>1, <1>2, RequestParts
  <2>5. s[1] = "port" => Good(Rq!PortStep(s, c))
    BY <1>1, <1>2, RequestParts
  <2> HIDE DEF Good
  <2> QED BY <2>1, <2>2, <2>3, <2>4, <2>5, Zenon DEF Rq!HostDelta, Rq!HostStates, Rq!At
<1>5. s[1] \in Rq!FieldStates => Good(Rq!FieldDelta(s, c))
  <2>1. s[1] = "header" => Good(Rq!HeaderStep(s, c))
    BY RequestHeader
  <2>2. s[1] \in {"name", "lastcr"} => Good(Rq!NameStep(s, c))
    BY RequestFieldName
  <2>3. s[1] = "lws" => Good(Rq!LwsStep(s, c))
    BY RequestLws
  <2>4. s[1] = "value" => Good(Rq!ValueStep(s, c))
    BY RequestValue
  <2>5. s[1] = "crlf" => Good(Rq!CrlfStep(s, c))
    BY RequestCrlf
  <2> HIDE DEF Good
  <2> QED BY <2>1, <2>2, <2>3, <2>4, <2>5, Zenon DEF Rq!FieldDelta, Rq!FieldStates, Rq!At
<1>6. s[1] \in Rq!BodyStates => Good(Rq!BodyDelta(s, c))
  <2>1. s[1] = "xmlName" => Good(Rq!XmlNameStep(s, c))
    BY RequestXmlName
  <2>2. s[1] \in {"xml", "xmlClose"} => Good(Rq!XmlStep(s, c))
    BY RequestBody
  <2>3. s[1] = "brace" => Good(Rq!BraceStep(s, c))
    BY RequestBody
  <2>4. s[1] \in {"json", "jsonClose"} => Good(Rq!JsonStep(s, c))
    BY RequestBody
  <2> HIDE DEF Good
  <2> QED BY <2>1, <2>2, <2>3, <2>4, Zenon DEF Rq!BodyDelta, Rq!BodyStates, Rq!At
<1>7. s[1] = "start" => Good(Rq!StartStep(c))
  BY RequestStart
<1>8. s[1] = "method" => Good(Rq!MethodStep(s, c))
  BY RequestMethod
<1>9. s[1] \in {"query0", "query"} => Good(Rq!QueryStep(s, c))
  BY RequestQuery
<1>10. s[1] \in {"fragment0", "fragment"} => Good(Rq!FragmentStep(s, c))
  BY RequestFragment
<1>11. s[1] = "version" => Good(Rq!VersionStep(s, c))
  BY RequestVersion
<1>12. s[1] \notin {"method", "version", "xmlName"} => Good(Rq!PctStep(s, c))
  BY RequestPct
<1>13. Good(Rq!Fail)
  BY RequestFails DEF Is, Rq!Fail, Rq!Stay, Rq!Go, Rq!Error, Rq!S
<1> HIDE DEF Good
<1>14. Good(Rq!Delta(s, c))
  BY <1>3, <1>4, <1>5, <1>6, <1>7, <1>8, <1>9, <1>10, <1>11, <1>12, <1>13, Zenon DEF Rq!Delta, Rq!At
<1> QED BY <1>14 DEF Good

----------------------------------------------------------------------------
(* The response parser: marks and callbacks *)

Words == {"conn", "te", "cl"}

\* The states in which a header line is read, and those behind an empty value.
LineStates  == {"header", "closeLine", "name", "nameC", "nameT", "named", "lws", "value", "crlf", "crlfClose",
                "crlfTe", "any"}
AfterEmpty  == {"nameCl", "nameCk", "emptyLine", "emptyCr", "emptyLineCr", "fold", "must", "nameIsValue"}

\* The words of the states that are about one, and how much of a value has been read.
ResponseState(a, w, i) ==
    /\ a = "lws" => w \in Words \cup {"-"} /\ i = 0
    /\ a \in {"named", "any", "emptyLine", "emptyCr", "emptyLineCr", "fold", "must", "nameIsValue"} => w \in Words
    /\ a \in {"any", "must"} => i \in {1, 2} /\ (w = "cl" => i = 2)

\* What has been reported in a state with name a.
ResponseCalls(a, k) ==
    /\ a \in {"start", "version", "chunkSize"}    => k = <<>>
    /\ a \in {"status0", "status"}                => k = <<"version">>
    /\ a \in {"reason0", "reason"}                => k = <<"version", "status">>
    /\ a \in {"ext", "extName", "extEq", "extValue"} => k \in Chunks
    /\ a \in LineStates \cup AfterEmpty           => k \in Statuses
    /\ a = "lastcr"                               => k \in Statuses \cup Chunks
    /\ a = "final"                                => k \in Orders

\* The part that mark points at, where a later callback uses it.
ResponseMark(a, w, m) ==
    /\ a \in {"version", "chunkSize"}                         => m = "first"
    /\ a = "status"                                           => m = "status0"
    /\ a = "reason"                                           => m = "reason0"
    /\ a \in {"extEq", "extValue", "value", "any", "nameCk"}  => m = "value"
    /\ a \in {"must", "nameIsValue"} /\ w # "conn"            => m = "value"

ResponseAt(a, w, i, m, k) == ResponseState(a, w, i) /\ ResponseCalls(a, k) /\ ResponseMark(a, w, m)

ResponseFits(s, m, k) == s = <<s[1], s[2], s[3]>> /\ ResponseAt(s[1], s[2], s[3], m, k)

\* The callbacks of a transition get the text of their parts.
OwnMark(d, m) == \A a \in d.acts \cap Callbacks \cap DOMAIN OwnParts : m \in OwnParts[a]

ResponseGood(s, d, m, k) ==
    ResponseFits(d.to, MarkAfter(s, d, m), Add(k, Made(d.acts))) /\ OwnMark(d, MarkAfter(s, d, m))

(* What follows from the parts of a state. *)
LEMMA ResponseWhere ==
    ASSUME NEW a, NEW w, NEW i, NEW m, NEW k, ResponseAt(a, w, i, m, k)
    PROVE  ResponseFits(<<a, w, i>>, m, k)
<1> DEFINE t == <<a, w, i>>
<1>1. t[1] = a /\ t[2] = w /\ t[3] = i /\ t = <<t[1], t[2], t[3]>>
  OBVIOUS
<1> HIDE DEF t
<1>2. ResponseFits(t, m, k)
  BY <1>1 DEF ResponseFits
<1> QED BY <1>2 DEF t

SilentActs == {"mark", "field_start", "field_len", "close", "chunked", "content_len"}

(* A transition without callbacks ... *)
LEMMA ResponseSilent ==
    ASSUME NEW s, NEW a, NEW w, NEW i, NEW acts, NEW m, NEW k \in Seq(Callbacks), acts \subseteq SilentActs,
           ResponseAt(a, w, i, IF "mark" \in acts THEN Part(s) ELSE m, k)
    PROVE  ResponseGood(s, Rs!Go(<<a, w, i>>, acts), m, k)
<1> DEFINE d == Rs!Go(<<a, w, i>>, acts)
<1>1. d.to = <<a, w, i>> /\ d.acts = acts
  BY DEF Rs!Go
<1> HIDE DEF d
<1>2. \A x \in acts : x \notin Callbacks
  BY DEF Callbacks, SilentActs
<1>3. acts \cap Callbacks = {} /\ Made(acts) = <<>>
  BY <1>2, NoCalls
<1>4. Add(k, Made(acts)) = k
  BY <1>3, AddFacts
<1>5. OwnMark(d, MarkAfter(s, d, m))
  BY <1>1, <1>3 DEF OwnMark
<1>6. ResponseFits(<<a, w, i>>, MarkAfter(s, d, m), k)
  BY <1>1, ResponseWhere DEF MarkAfter
<1>7. ResponseGood(s, d, m, k)
  BY <1>1, <1>4, <1>5, <1>6 DEF ResponseGood
<1> QED BY <1>7 DEF d

(* ... and with one. *)
LEMMA ResponseSays ==
    ASSUME NEW s, NEW a, NEW w, NEW i, NEW acts, NEW m, NEW k, NEW x \in Callbacks, acts \cap Callbacks = {x},
           ResponseAt(a, w, i, IF "mark" \in acts THEN Part(s) ELSE m, Add(k, <<x>>)),
           x \in DOMAIN OwnParts => (IF "mark" \in acts THEN Part(s) ELSE m) \in OwnParts[x]
    PROVE  ResponseGood(s, Rs!Go(<<a, w, i>>, acts), m, k)
<1> DEFINE d == Rs!Go(<<a, w, i>>, acts)
<1>1. d.to = <<a, w, i>> /\ d.acts = acts
  BY DEF Rs!Go
<1> HIDE DEF d
<1>2. Made(acts) = <<x>>
  BY MadeIs
<1>3. OwnMark(d, MarkAfter(s, d, m))
  BY <1>1 DEF OwnMark, MarkAfter
<1>4. ResponseFits(<<a, w, i>>, MarkAfter(s, d, m), Add(k, <<x>>))
  BY <1>1, ResponseWhere DEF MarkAfter
<1>5. ResponseGood(s, d, m, k)
  BY <1>1, <1>2, <1>3, <1>4 DEF ResponseGood
<1> QED BY <1>5 DEF d

(* The last line break of a chunk header also ends its last part. *)
LEMMA ResponseSaysDone ==
    ASSUME NEW s, NEW acts, NEW m, NEW k, NEW x \in {"chunk_size", "field"}, acts \cap Callbacks = {x, "done"},
           Add(k, <<x, "done">>) \in Orders,
           (IF "mark" \in acts THEN Part(s) ELSE m) \in OwnParts[x]
    PROVE  ResponseGood(s, Rs!Go(<<"final", "-", 0>>, acts), m, k)
<1> DEFINE d == Rs!Go(<<"final", "-", 0>>, acts)
<1>1. d.to = <<"final", "-", 0>> /\ d.acts = acts
  BY DEF Rs!Go
<1> HIDE DEF d
<1>2. Made(acts) = <<x, "done">>
  BY MadeIs
<1>6. "done" \notin DOMAIN OwnParts
  BY DEF OwnParts
<1>3. OwnMark(d, MarkAfter(s, d, m))
  BY <1>1, <1>6 DEF OwnMark, MarkAfter
<1>7. \A y, z : z \in Orders => ResponseAt("final", "-", 0, y, z)
  BY DEF ResponseAt, ResponseState, ResponseCalls, ResponseMark, LineStates, AfterEmpty
<1>4. ResponseFits(<<"final", "-", 0>>, MarkAfter(s, d, m), Add(k, <<x, "done">>))
  BY <1>1, <1>7, ResponseWhere DEF MarkAfter
<1>5. ResponseGood(s, d, m, k)
  BY <1>1, <1>2, <1>3, <1>4 DEF ResponseGood
<1> QED BY <1>5 DEF d

(* A malformed character: nothing is asked of an error. *)
LEMMA ResponseFails == ASSUME NEW s, NEW m, NEW k PROVE ResponseGood(s, Rs!Fail, m, k)
<1> DEFINE d == Rs!Fail
<1>1. d.to = <<"error", "-", 0>> /\ d.acts = {}
  BY DEF Rs!Fail, Rs!Stay, Rs!Go, Rs!S
<1> HIDE DEF d
<1>2. \A x, y : ResponseAt("error", "-", 0, x, y)
  BY DEF ResponseAt, ResponseState, ResponseCalls, ResponseMark, LineStates, AfterEmpty
<1>3. ResponseFits(d.to, MarkAfter(s, d, m), Add(k, Made(d.acts)))
  BY <1>1, <1>2, ResponseWhere
<1>4. OwnMark(d, MarkAfter(s, d, m))
  BY <1>1 DEF OwnMark
<1> QED BY <1>3, <1>4 DEF ResponseGood, d

(* The callbacks made before are callbacks. *)
LEMMA ResponseSeq ==
    ASSUME NEW s, NEW m, NEW k, ResponseFits(s, m, k),
           s[1] \in {"start", "version", "chunkSize", "status0", "status", "reason0", "reason", "ext", "extName", "extEq",
                     "extValue", "lastcr"} \cup LineStates \cup AfterEmpty
    PROVE  k \in Seq(Callbacks)
<1>1. <<>> \in Seq(Callbacks) /\ <<"version">> \in Seq(Callbacks) /\ <<"version", "status">> \in Seq(Callbacks)
  BY EmptySeq DEF Callbacks
<1>2. k \in {<<>>, <<"version">>, <<"version", "status">>} \cup Statuses \cup Chunks
  BY DEF ResponseFits, ResponseAt, ResponseCalls, LineStates, AfterEmpty
<1> QED BY <1>1, <1>2, OrderTypes

(* A character that changes nothing. *)
LEMMA ResponseStays ==
    ASSUME NEW s, NEW m, NEW k \in Seq(Callbacks), ResponseFits(s, m, k)
    PROVE  ResponseGood(s, Rs!Go(s, {}), m, k)
<1> DEFINE a == s[1]
           w == s[2]
           i == s[3]
<1>1. s = <<a, w, i>> /\ ResponseAt(a, w, i, m, k)
  BY DEF ResponseFits
<1> HIDE DEF a, w, i
<1>2. {} \subseteq SilentActs /\ (IF "mark" \in {} THEN Part(s) ELSE m) = m
  OBVIOUS
<1>3. ResponseGood(s, Rs!Go(<<a, w, i>>, {}), m, k)
  BY <1>1, <1>2, ResponseSilent
<1> QED BY <1>1, <1>3

(* The end of a message. *)
LEMMA ResponseDone ==
    ASSUME NEW s, NEW w, NEW acts, NEW m, NEW k \in Statuses \cup Chunks, acts \subseteq {"close", "done"}, "done" \in acts
    PROVE  ResponseGood(s, Rs!Go(<<"final", w, 0>>, acts), m, k)
<1>1. "done" \in Callbacks /\ acts \cap Callbacks = {"done"} /\ "done" \notin DOMAIN OwnParts
  BY DEF Callbacks, OwnParts
<1>2. \A x, y : y \in Orders => ResponseAt("final", w, 0, x, y)
  BY DEF ResponseAt, ResponseState, ResponseCalls, ResponseMark, LineStates, AfterEmpty
<1> QED BY <1>1, <1>2, ResponseOrder, ResponseSays

(* The first character. *)
LEMMA ResponseStart ==
    ASSUME NEW s, NEW c, NEW m, NEW k, ResponseFits(s, m, k), s[1] = "start"
    PROVE  ResponseGood(s, Rs!StartStep(c), m, k)
<1> DEFINE Good(d) == ResponseGood(s, d, m, k)
<1>0. k \in Seq(Callbacks)
  BY ResponseSeq
<1>1. k = <<>> /\ Part(s) = "first"
  BY PartIs DEF ResponseFits, ResponseAt, ResponseCalls
<1>2. ResponseAt("chunkSize", "-", 0, "first", <<>>) /\ ResponseAt("version", "-", 0, "first", <<>>)
  BY DEF ResponseAt, ResponseState, ResponseCalls, ResponseMark, LineStates, AfterEmpty
<1>3. {"mark"} \subseteq SilentActs /\ (IF "mark" \in {"mark"} THEN Part(s) ELSE m) = "first"
  BY <1>1 DEF SilentActs
<1>4. Good(Rs!Go(<<"chunkSize", "-", 0>>, {"mark"}))
  BY <1>0, <1>1, <1>2, <1>3, ResponseSilent
<1>5. Good(Rs!Go(<<"version", "-", 0>>, {"mark"}))
  BY <1>0, <1>1, <1>2, <1>3, ResponseSilent
<1>6. Good(Rs!Fail)
  BY ResponseFails
<1> HIDE DEF Good
<1>7. Good(Rs!StartStep(c))
  BY <1>4, <1>5, <1>6, Zenon DEF Rs!StartStep, Rs!S
<1> QED BY <1>7 DEF Good

(* A chunk header: the end of its parts ... *)
LEMMA ResponseChunkEnd ==
    ASSUME NEW s, NEW c, NEW m, NEW k, NEW acts, NEW x \in {"chunk_size", "field"}, acts \cap Callbacks = {x},
           (IF "mark" \in acts THEN Part(s) ELSE m) \in OwnParts[x],
           Add(k, <<x>>) \in Chunks, Add(k, <<x, "done">>) \in Orders
    PROVE  ResponseGood(s, Rs!ChunkEnd(c, acts), m, k)
<1> DEFINE Good(d) == ResponseGood(s, d, m, k)
<1>1. x \in Callbacks /\ (acts \cup {"done"}) \cap Callbacks = {x, "done"}
  BY DEF Callbacks
<1>2. "mark" \in acts \cup {"done"} <=> "mark" \in acts
  OBVIOUS
<1>3. Good(Rs!Go(<<"final", "-", 0>>, acts \cup {"done"}))
  BY <1>1, <1>2, ResponseSaysDone
<1>4. \A y, z : z \in Chunks => ResponseAt("lastcr", "-", 0, y, z) /\ ResponseAt("ext", "-", 0, y, z)
  BY DEF ResponseAt, ResponseState, ResponseCalls, ResponseMark, LineStates, AfterEmpty
<1>5. Good(Rs!Go(<<"lastcr", "-", 0>>, acts))
  BY <1>1, <1>4, ResponseSays
<1>6. Good(Rs!Go(<<"ext", "-", 0>>, acts))
  BY <1>1, <1>4, ResponseSays
<1>7. Good(Rs!Fail)
  BY ResponseFails
<1> HIDE DEF Good
<1>8. Good(Rs!ChunkEnd(c, acts))
  BY <1>3, <1>5, <1>6, <1>7, Zenon DEF Rs!ChunkEnd, Rs!S
<1> QED BY <1>8 DEF Good

(* ... its size ... *)
LEMMA ResponseChunkSize ==
    ASSUME NEW s, NEW c, NEW m, NEW k, ResponseFits(s, m, k), s[1] = "chunkSize"
    PROVE  ResponseGood(s, Rs!ChunkSizeStep(s, c), m, k)
<1>0. k \in Seq(Callbacks)
  BY ResponseSeq
<1>1. k = <<>> /\ m = "first"
  BY DEF ResponseFits, ResponseAt, ResponseCalls, ResponseMark
<1>2. /\ {"chunked", "content_len", "chunk_size"} \cap Callbacks = {"chunk_size"}
      /\ "first" \in OwnParts["chunk_size"]
  BY DEF Callbacks, OwnParts
<1>3. (IF "mark" \in {"chunked", "content_len", "chunk_size"} THEN Part(s) ELSE m) = "first"
  BY <1>1
<1>4. ResponseGood(s, Rs!ChunkEnd(c, {"chunked", "content_len", "chunk_size"}), m, k)
  BY <1>1, <1>2, <1>3, ResponseOrder, ResponseChunkEnd
<1>5. ResponseGood(s, Rs!Stay(s), m, k)
  BY <1>0, ResponseStays DEF Rs!Stay
<1> QED BY <1>4, <1>5 DEF Rs!ChunkSizeStep

(* ... and its extensions. *)
LEMMA ResponseExtName ==
    ASSUME NEW s, NEW c, NEW m, NEW k, ResponseFits(s, m, k), s[1] \in {"ext", "extName"}
    PROVE  ResponseGood(s, Rs!ExtNameStep(s, c), m, k)
<1> DEFINE Good(d) == ResponseGood(s, d, m, k)
<1>0. k \in Seq(Callbacks)
  BY ResponseSeq
<1>1. k \in Chunks
  BY DEF ResponseFits, ResponseAt, ResponseCalls
<1>2. {"field_start"} \subseteq SilentActs /\ {"field_len", "mark"} \subseteq SilentActs
      /\ (IF "mark" \in {"field_start"} THEN Part(s) ELSE m) = m
      /\ (IF "mark" \in {"field_len", "mark"} THEN Part(s) ELSE m) = Part(s)
      /\ (IF "mark" \in {"field_len", "mark", "field"} THEN Part(s) ELSE m) = Part(s)
  BY DEF SilentActs
<1>3. \A y : ResponseAt("extName", "-", 0, y, k) /\ ResponseAt("extEq", "-", 0, "value", k)
  BY <1>1 DEF ResponseAt, ResponseState, ResponseCalls, ResponseMark, LineStates, AfterEmpty
<1>4. Good(Rs!Go(<<"extName", "-", 0>>, {"field_start"}))
  BY <1>0, <1>2, <1>3, ResponseSilent
<1>5. Good(Rs!Go(s, {}))
  BY <1>0, ResponseStays
<1>6. s[1] = "extName" => Good(Rs!Go(<<"extEq", "-", 0>>, {"field_len", "mark"}))
  <2> SUFFICES ASSUME s[1] = "extName" PROVE Good(Rs!Go(<<"extEq", "-", 0>>, {"field_len", "mark"}))
    OBVIOUS
  <2>1. Part(s) = "value"
    BY PartIs
  <2> QED BY <1>0, <1>2, <1>3, <2>1, ResponseSilent
<1>7. s[1] = "extName" => Good(Rs!ChunkEnd(c, {"field_len", "mark", "field"}))
  <2> SUFFICES ASSUME s[1] = "extName" PROVE Good(Rs!ChunkEnd(c, {"field_len", "mark", "field"}))
    OBVIOUS
  <2>1. Part(s) = "value"
    BY PartIs
  <2>2. {"field_len", "mark", "field"} \cap Callbacks = {"field"} /\ "value" \in OwnParts["field"]
    BY DEF Callbacks, OwnParts
  <2> QED BY <1>1, <1>2, <2>1, <2>2, ResponseOrder, ResponseChunkEnd
<1>8. Good(Rs!Fail)
  BY ResponseFails
<1> HIDE DEF Good
<1>9. Good(Rs!ExtNameStep(s, c))
  BY <1>4, <1>5, <1>6, <1>7, <1>8, Zenon DEF Rs!ExtNameStep, Rs!S, Rs!Stay, Rs!At
<1> QED BY <1>9 DEF Good

(* The value of an extension of a chunk. *)
LEMMA ResponseExtValue ==
    ASSUME NEW s, NEW c, NEW m, NEW k, ResponseFits(s, m, k), s[1] \in {"extEq", "extValue"}
    PROVE  ResponseGood(s, Rs!ExtValueStep(s, c), m, k)
<1> DEFINE Good(d) == ResponseGood(s, d, m, k)
<1>0. k \in Seq(Callbacks)
  BY ResponseSeq
<1>1. k \in Chunks /\ m = "value"
  BY DEF ResponseFits, ResponseAt, ResponseCalls, ResponseMark
<1>2. {"mark"} \subseteq SilentActs /\ (IF "mark" \in {"mark"} THEN Part(s) ELSE m) = Part(s)
      /\ (IF "mark" \in {"field"} THEN Part(s) ELSE m) = m
  BY DEF SilentActs
<1>3. ResponseAt("extValue", "-", 0, "value", k)
  BY <1>1 DEF ResponseAt, ResponseState, ResponseCalls, ResponseMark, LineStates, AfterEmpty
<1>4. s[1] = "extEq" => Good(Rs!Go(<<"extValue", "-", 0>>, {"mark"}))
  BY <1>0, <1>2, <1>3, PartIs, ResponseSilent
<1>5. Good(Rs!Go(s, {}))
  BY <1>0, ResponseStays
<1>6. Good(Rs!ChunkEnd(c, {"field"}))
  <2>1. {"field"} \cap Callbacks = {"field"} /\ "value" \in OwnParts["field"]
    BY DEF Callbacks, OwnParts
  <2> QED BY <1>1, <1>2, <2>1, ResponseOrder, ResponseChunkEnd
<1>7. Good(Rs!Fail)
  BY ResponseFails
<1> HIDE DEF Good
<1>8. Good(Rs!ExtValueStep(s, c))
  BY <1>4, <1>5, <1>6, <1>7, Zenon DEF Rs!ExtValueStep, Rs!S, Rs!Stay, Rs!At
<1> QED BY <1>8 DEF Good

(* The status line: version, status and reason. *)
LEMMA ResponseVersion ==
    ASSUME NEW s, NEW c, NEW m, NEW k, ResponseFits(s, m, k), s[1] = "version"
    PROVE  ResponseGood(s, Rs!VersionStep(s, c), m, k)
<1> DEFINE Good(d) == ResponseGood(s, d, m, k)
<1>0. k \in Seq(Callbacks)
  BY ResponseSeq
<1>1. k = <<>> /\ m = "first" /\ s = <<s[1], s[2], s[3]>>
  BY DEF ResponseFits, ResponseAt, ResponseCalls, ResponseMark
<1>2. ASSUME NEW i PROVE Good(Rs!Go(Rs!Reach(s, i), {}))
  <2>1. Rs!Reach(s, i) = <<"version", s[2], i>>
    BY <1>1 DEF Rs!Reach
  <2>2. ResponseAt("version", s[2], i, "first", <<>>)
    BY DEF ResponseAt, ResponseState, ResponseCalls, ResponseMark, LineStates, AfterEmpty
  <2>3. {} \subseteq SilentActs /\ (IF "mark" \in {} THEN Part(s) ELSE m) = "first"
    BY <1>1
  <2>4. Good(Rs!Go(<<"version", s[2], i>>, {}))
    BY <1>0, <1>1, <2>2, <2>3, ResponseSilent
  <2> QED BY <2>1, <2>4
<1>3. Good(Rs!Go(<<"status0", "-", 0>>, {"version"}))
  <2>1. ResponseAt("status0", "-", 0, "first", <<"version">>)
    BY DEF ResponseAt, ResponseState, ResponseCalls, ResponseMark, LineStates, AfterEmpty
  <2>2. "version" \in Callbacks /\ {"version"} \cap Callbacks = {"version"} /\ "first" \in OwnParts["version"]
        /\ (IF "mark" \in {"version"} THEN Part(s) ELSE m) = "first"
    BY <1>1 DEF Callbacks, OwnParts
  <2> QED BY <1>1, <2>1, <2>2, ResponseOrder, ResponseSays
<1>4. Good(Rs!Fail)
  BY ResponseFails
<1> HIDE DEF Good
<1>5. Good(Rs!VersionStep(s, c))
  BY <1>2, <1>3, <1>4, Zenon DEF Rs!VersionStep, Rs!S, Rs!Stay
<1> QED BY <1>5 DEF Good

(* The status code. *)
LEMMA ResponseStatus ==
    ASSUME NEW s, NEW c, NEW m, NEW k, ResponseFits(s, m, k), s[1] \in {"status0", "status"}
    PROVE  ResponseGood(s, Rs!StatusStep(s, c), m, k)
<1> DEFINE Good(d) == ResponseGood(s, d, m, k)
           acts == IF Rs!At(s) = "status0" THEN {"mark"} ELSE {}
<1>0. k \in Seq(Callbacks)
  BY ResponseSeq
<1>1. k = <<"version">> /\ (s[1] = "status" => m = "status0")
  BY DEF ResponseFits, ResponseAt, ResponseCalls, ResponseMark
<1>2. acts \subseteq SilentActs /\ (IF "mark" \in acts THEN Part(s) ELSE m) = "status0"
  BY <1>1, PartIs DEF Rs!At, SilentActs
<1>3. Good(Rs!Go(<<"status", "-", 0>>, acts))
  <2> HIDE DEF acts
  <2>1. ResponseAt("status", "-", 0, "status0", <<"version">>)
    BY DEF ResponseAt, ResponseState, ResponseCalls, ResponseMark, LineStates, AfterEmpty
  <2> QED BY <1>0, <1>1, <1>2, <2>1, ResponseSilent
<1>4. s[1] = "status" => Good(Rs!Go(<<"reason0", "-", 0>>, {"status"}))
  <2> SUFFICES ASSUME s[1] = "status" PROVE Good(Rs!Go(<<"reason0", "-", 0>>, {"status"}))
    OBVIOUS
  <2>1. ResponseAt("reason0", "-", 0, "status0", <<"version", "status">>)
    BY DEF ResponseAt, ResponseState, ResponseCalls, ResponseMark, LineStates, AfterEmpty
  <2>2. "status" \in Callbacks /\ {"status"} \cap Callbacks = {"status"} /\ "status0" \in OwnParts["status"]
        /\ (IF "mark" \in {"status"} THEN Part(s) ELSE m) = "status0"
    BY <1>1 DEF Callbacks, OwnParts
  <2> QED BY <1>1, <2>1, <2>2, ResponseOrder, ResponseSays
<1>5. Good(Rs!Fail)
  BY ResponseFails
<1> HIDE DEF Good
<1>6. Good(Rs!StatusStep(s, c))
  <2>1. Rs!At(s) = s[1]
    BY DEF Rs!At
  <2>2. Rs!At(s) = "status" => Good(Rs!Go(<<"reason0", "-", 0>>, {"status"}))
    BY <1>4, <2>1
  <2> QED BY <1>3, <1>5, <2>2, Zenon DEF Rs!StatusStep, Rs!S
<1> QED BY <1>6 DEF Good

(* The reason phrase. *)
LEMMA ResponseReason ==
    ASSUME NEW s, NEW c, NEW m, NEW k, ResponseFits(s, m, k), s[1] \in {"reason0", "reason"}
    PROVE  ResponseGood(s, Rs!ReasonStep(s, c), m, k)
<1> DEFINE Good(d) == ResponseGood(s, d, m, k)
<1>0. k \in Seq(Callbacks)
  BY ResponseSeq
<1>1. k = <<"version", "status">> /\ (s[1] = "reason" => m = "reason0") /\ (s[1] = "reason0" => Part(s) = "reason0")
  BY PartIs DEF ResponseFits, ResponseAt, ResponseCalls, ResponseMark
<1>2. s[1] = "reason0" => Good(Rs!Go(<<"reason", "-", 0>>, {"mark"}))
  <2> SUFFICES ASSUME s[1] = "reason0" PROVE Good(Rs!Go(<<"reason", "-", 0>>, {"mark"}))
    OBVIOUS
  <2>1. ResponseAt("reason", "-", 0, "reason0", <<"version", "status">>)
    BY DEF ResponseAt, ResponseState, ResponseCalls, ResponseMark, LineStates, AfterEmpty
  <2>2. {"mark"} \subseteq SilentActs /\ (IF "mark" \in {"mark"} THEN Part(s) ELSE m) = "reason0"
    BY <1>1 DEF SilentActs
  <2> QED BY <1>0, <1>1, <2>1, <2>2, ResponseSilent
<1>3. ASSUME NEW a \in {"crlf", "header"}, s[1] = "reason" PROVE Good(Rs!Go(<<a, "-", 0>>, {"reason"}))
  <2>1. \A y : y \in Statuses => ResponseAt(a, "-", 0, "reason0", y)
    BY <1>3 DEF ResponseAt, ResponseState, ResponseCalls, ResponseMark, LineStates, AfterEmpty
  <2>2. "reason" \in Callbacks /\ {"reason"} \cap Callbacks = {"reason"} /\ "reason0" \in OwnParts["reason"]
        /\ (IF "mark" \in {"reason"} THEN Part(s) ELSE m) = "reason0"
    BY <1>1, <1>3 DEF Callbacks, OwnParts
  <2>3. Add(k, <<"reason">>) \in Statuses
    BY <1>1, ResponseOrder
  <2>4. ResponseAt(a, "-", 0, "reason0", Add(k, <<"reason">>))
    BY <2>1, <2>3
  <2> QED BY <2>2, <2>4, ResponseSays
<1>4. /\ s[1] = "reason" => Good(Rs!Go(<<"crlf", "-", 0>>, {"reason"}))
      /\ s[1] = "reason" => Good(Rs!Go(<<"header", "-", 0>>, {"reason"}))
  BY <1>3
<1>5. Good(Rs!Go(s, {}))
  BY <1>0, ResponseStays
<1>6. Good(Rs!Fail)
  BY ResponseFails
<1> HIDE DEF Good
<1>7. Good(Rs!ReasonStep(s, c))
  BY <1>2, <1>4, <1>5, <1>6, Zenon DEF Rs!ReasonStep, Rs!S, Rs!Stay, Rs!At
<1> QED BY <1>7 DEF Good

(* The header lines: from one state to another without a callback ... *)
LEMMA ResponseMoves ==
    ASSUME NEW s, NEW a \in LineStates \cup AfterEmpty, NEW w, NEW i, NEW acts, NEW m, NEW k \in Statuses,
           acts \subseteq SilentActs, ResponseState(a, w, i), ResponseMark(a, w, IF "mark" \in acts THEN Part(s) ELSE m)
    PROVE  ResponseGood(s, Rs!Go(<<a, w, i>>, acts), m, k)
<1>1. k \in Seq(Callbacks)
  BY OrderTypes
<1>2. ResponseCalls(a, k)
  BY DEF ResponseCalls, LineStates, AfterEmpty
<1> QED BY <1>1, <1>2, ResponseSilent DEF ResponseAt

(* ... and with the report of a field. *)
LEMMA ResponseField ==
    ASSUME NEW s, NEW a \in {"header", "crlf", "closeLine", "crlfClose", "crlfTe", "emptyLine", "emptyCr"}, NEW w, NEW acts,
           NEW m, NEW k \in Statuses, acts \cap Callbacks = {"field"}, ResponseState(a, w, 0),
           (IF "mark" \in acts THEN Part(s) ELSE m) = "value"
    PROVE  ResponseGood(s, Rs!Go(<<a, w, 0>>, acts), m, k)
<1>1. Add(k, <<"field">>) \in Statuses
  BY ResponseOrder
<1>2. \A y, z : z \in Statuses => ResponseAt(a, w, 0, y, z)
  BY DEF ResponseAt, ResponseCalls, ResponseMark, LineStates, AfterEmpty
<1>3. "field" \in Callbacks /\ "value" \in OwnParts["field"]
  BY DEF Callbacks, OwnParts
<1> QED BY <1>1, <1>2, <1>3, ResponseSays

(* The start of a header line ... *)
LEMMA ResponseLineStart ==
    ASSUME NEW s, NEW c, NEW m, NEW k \in Statuses, NEW acts \in {{}, {"close"}}
    PROVE  ResponseGood(s, Rs!LineStart(c, acts), m, k)
<1> DEFINE Good(d) == ResponseGood(s, d, m, k)
<1>1. acts \cup {"done"} \subseteq {"close", "done"} /\ acts \subseteq SilentActs /\ acts \cup {"field_start"} \subseteq SilentActs
  BY DEF SilentActs
<1>2. Good(Rs!Go(<<"final", "-", 0>>, acts \cup {"done"}))
  BY <1>1, ResponseDone
<1>3. Good(Rs!Go(<<"lastcr", "-", 0>>, acts))
  <2>1. \A y : ResponseAt("lastcr", "-", 0, y, k)
    BY DEF ResponseAt, ResponseState, ResponseCalls, ResponseMark, LineStates, AfterEmpty
  <2>2. k \in Seq(Callbacks)
    BY OrderTypes
  <2> QED BY <1>1, <2>1, <2>2, ResponseSilent
<1>4. \A a \in {"nameC", "nameT", "name"} : Good(Rs!Go(<<a, "-", 0>>, acts \cup {"field_start"}))
  <2> SUFFICES ASSUME NEW a \in {"nameC", "nameT", "name"} PROVE Good(Rs!Go(<<a, "-", 0>>, acts \cup {"field_start"}))
    OBVIOUS
  <2>1. a \in LineStates \cup AfterEmpty /\ ResponseState(a, "-", 0) /\ \A y : ResponseMark(a, "-", y)
    BY DEF LineStates, ResponseState, ResponseMark
  <2> QED BY <1>1, <2>1, ResponseMoves
<1>5. /\ Good(Rs!Go(<<"nameC", "-", 0>>, acts \cup {"field_start"}))
      /\ Good(Rs!Go(<<"nameT", "-", 0>>, acts \cup {"field_start"}))
      /\ Good(Rs!Go(<<"name", "-", 0>>, acts \cup {"field_start"}))
  BY <1>4
<1>6. Good(Rs!Fail)
  BY ResponseFails
<1> HIDE DEF Good
<1>7. Good(Rs!LineStart(c, acts))
  BY <1>2, <1>3, <1>5, <1>6, Zenon DEF Rs!LineStart, Rs!S
<1> QED BY <1>7 DEF Good

(* ... its name, which may also have been taken for a value ... *)
LEMMA ResponseName ==
    ASSUME NEW s, NEW u, NEW c, NEW m, NEW k \in Statuses, u[1] \in Rs!NameStates, u[1] = "named" => u[2] \in Words,
           u[1] = "nameCk" => m = "value"
    PROVE  ResponseGood(s, Rs!NameStep(u, c), m, k)
<1> DEFINE Good(d) == ResponseGood(s, d, m, k)
<1>1. {} \subseteq SilentActs /\ {"field_len"} \subseteq SilentActs /\ (IF "mark" \in {} THEN Part(s) ELSE m) = m
      /\ (IF "mark" \in {"field_len"} THEN Part(s) ELSE m) = m
  BY DEF SilentActs
<1>2. \A w \in Words : Good(Rs!Go(<<"named", w, 0>>, {}))
  <2> SUFFICES ASSUME NEW w \in Words PROVE Good(Rs!Go(<<"named", w, 0>>, {}))
    OBVIOUS
  <2>1. "named" \in LineStates \cup AfterEmpty /\ ResponseState("named", w, 0) /\ ResponseMark("named", w, m)
    BY DEF LineStates, ResponseState, ResponseMark
  <2> QED BY <1>1, <2>1, ResponseMoves
<1>3. Good(Rs!Go(<<"nameIsValue", "conn", 0>>, {}))
  <2>1. "nameIsValue" \in LineStates \cup AfterEmpty /\ ResponseState("nameIsValue", "conn", 0)
        /\ ResponseMark("nameIsValue", "conn", m)
    BY DEF AfterEmpty, ResponseState, ResponseMark, Words
  <2> QED BY <1>1, <2>1, ResponseMoves
<1>4. u[1] = "nameCk" => Good(Rs!Go(<<"nameIsValue", "te", 0>>, {}))
  <2> SUFFICES ASSUME u[1] = "nameCk" PROVE Good(Rs!Go(<<"nameIsValue", "te", 0>>, {}))
    OBVIOUS
  <2>1. "nameIsValue" \in LineStates \cup AfterEmpty /\ ResponseState("nameIsValue", "te", 0)
        /\ ResponseMark("nameIsValue", "te", m)
    BY DEF AfterEmpty, ResponseState, ResponseMark, Words
  <2> QED BY <1>1, <2>1, ResponseMoves
<1>5. Good(Rs!Go(<<"name", "-", 0>>, {}))
  <2>1. "name" \in LineStates \cup AfterEmpty /\ ResponseState("name", "-", 0) /\ ResponseMark("name", "-", m)
    BY DEF LineStates, ResponseState, ResponseMark
  <2> QED BY <1>1, <2>1, ResponseMoves
<1>6. \A w \in Words \cup {"-"} : Good(Rs!Go(<<"lws", w, 0>>, {"field_len"}))
  <2> SUFFICES ASSUME NEW w \in Words \cup {"-"} PROVE Good(Rs!Go(<<"lws", w, 0>>, {"field_len"}))
    OBVIOUS
  <2>1. "lws" \in LineStates \cup AfterEmpty /\ ResponseState("lws", w, 0) /\ ResponseMark("lws", w, m)
    BY DEF LineStates, ResponseState, ResponseMark
  <2> QED BY <1>1, <2>1, ResponseMoves
<1>7. Good(Rs!Fail)
  BY ResponseFails
<1>8. /\ Good(Rs!Go(<<"named", "conn", 0>>, {})) /\ Good(Rs!Go(<<"named", "cl", 0>>, {}))
      /\ Good(Rs!Go(<<"named", "te", 0>>, {})) /\ Good(Rs!Go(<<"lws", "-", 0>>, {"field_len"}))
      /\ u[1] = "named" => Good(Rs!Go(<<"lws", u[2], 0>>, {"field_len"}))
  BY <1>2, <1>6 DEF Words
<1> HIDE DEF Good
<1>9. Good(Rs!Go(Rs!Letter(u, c), {}))
  BY <1>3, <1>4, <1>5, <1>8, Zenon DEF Rs!Letter, Rs!S, Rs!K, Rs!At
<1>10. Good(Rs!NameStep(u, c))
  BY <1>7, <1>8, <1>9, Zenon DEF Rs!NameStep, Rs!S, Rs!K, Rs!Stay, Rs!At
<1> QED BY <1>10 DEF Good

(* ... the value of an ordinary field ... *)
LEMMA ResponseValue ==
    ASSUME NEW s, NEW u, NEW c, NEW k \in Statuses, NEW w, NEW i, u = <<"value", w, i>>
    PROVE  ResponseGood(s, Rs!ValueStep(u, c), "value", k)
<1> DEFINE Good(d) == ResponseGood(s, d, "value", k)
<1>1. {} \subseteq SilentActs /\ (IF "mark" \in {} THEN Part(s) ELSE "value") = "value"
      /\ (IF "mark" \in {"field"} THEN Part(s) ELSE "value") = "value" /\ {"field"} \cap Callbacks = {"field"}
  BY DEF SilentActs, Callbacks
<1>2. ResponseState("header", "-", 0) /\ ResponseState("crlf", "-", 0) /\ ResponseState("value", w, i)
      /\ ResponseMark("value", w, "value") /\ "value" \in LineStates \cup AfterEmpty
  BY DEF ResponseState, ResponseMark, LineStates
<1>3. Good(Rs!Go(<<"header", "-", 0>>, {"field"})) /\ Good(Rs!Go(<<"crlf", "-", 0>>, {"field"}))
  BY <1>1, <1>2, ResponseField
<1>4. Good(Rs!Go(<<"value", w, i>>, {}))
  BY <1>1, <1>2, ResponseMoves
<1>5. Good(Rs!Go(u, {}))
  BY <1>4
<1> HIDE DEF Good
<1>6. Good(Rs!ValueStep(u, c))
  BY <1>3, <1>5, Zenon DEF Rs!ValueStep, Rs!S, Rs!Stay
<1> QED BY <1>6 DEF Good

(* The blanks before an ordinary value. *)
LEMMA ResponseLws ==
    ASSUME NEW s, NEW c, NEW m, NEW k \in Statuses, s = <<"lws", "-", 0>>
    PROVE  ResponseGood(s, Rs!LwsStep(s, c), m, k)
<1> DEFINE Good(d) == ResponseGood(s, d, m, k)
<1>0. s[1] = "lws"
  OBVIOUS
<1>1. {"mark"} \subseteq SilentActs /\ (IF "mark" \in {"mark"} THEN Part(s) ELSE m) = "value"
      /\ (IF "mark" \in {"mark", "field"} THEN Part(s) ELSE m) = "value" /\ {"mark", "field"} \cap Callbacks = {"field"}
  BY <1>0, PartIs DEF SilentActs, Callbacks
<1>2. ResponseState("header", "-", 0) /\ ResponseState("crlf", "-", 0) /\ ResponseState("value", "-", 0)
      /\ ResponseMark("value", "-", "value") /\ "value" \in LineStates \cup AfterEmpty
      /\ ResponseState("lws", "-", 0) /\ ResponseMark("lws", "-", "value") /\ "lws" \in LineStates \cup AfterEmpty
  BY DEF ResponseState, ResponseMark, LineStates
<1>3. Good(Rs!Go(<<"header", "-", 0>>, {"mark", "field"})) /\ Good(Rs!Go(<<"crlf", "-", 0>>, {"mark", "field"}))
  BY <1>1, <1>2, ResponseField
<1>4. Good(Rs!Go(<<"value", "-", 0>>, {"mark"})) /\ Good(Rs!Go(<<"lws", "-", 0>>, {"mark"}))
  BY <1>1, <1>2, ResponseMoves
<1>5. Good(Rs!Go(s, {"mark"}))
  BY <1>4
<1> HIDE DEF Good
<1>6. Good(Rs!LwsStep(s, c))
  BY <1>3, <1>4, <1>5, Zenon DEF Rs!LwsStep, Rs!S
<1> QED BY <1>6 DEF Good

(* ... and the line breaks. *)
LEMMA ResponseCrlf ==
    ASSUME NEW s, NEW c, NEW m, NEW k, ResponseFits(s, m, k), s[1] \in Rs!BreakStates
    PROVE  ResponseGood(s, Rs!CrlfStep(s, c), m, k)
<1> DEFINE Good(d) == ResponseGood(s, d, m, k)
<1>1. k \in Statuses \cup Chunks /\ (s[1] # "lastcr" => k \in Statuses)
  BY DEF ResponseFits, ResponseAt, ResponseCalls, Rs!BreakStates, LineStates
<1>2. Good(Rs!Go(<<"final", "-", 0>>, {"done"}))
  BY <1>1, ResponseDone
<1>3. \A y : /\ ResponseState("header", "-", 0) /\ ResponseMark("header", "-", y) /\ "header" \in LineStates \cup AfterEmpty
             /\ ResponseState("closeLine", "-", 0) /\ ResponseMark("closeLine", "-", y)
             /\ "closeLine" \in LineStates \cup AfterEmpty
  BY DEF ResponseState, ResponseMark, LineStates
<1>4. {} \subseteq SilentActs /\ {"chunked"} \subseteq SilentActs
  BY DEF SilentActs
<1>5. s[1] # "lastcr" => /\ Good(Rs!Go(<<"header", "-", 0>>, {})) /\ Good(Rs!Go(<<"closeLine", "-", 0>>, {}))
                         /\ Good(Rs!Go(<<"header", "-", 0>>, {"chunked"}))
  <2> SUFFICES ASSUME k \in Statuses
               PROVE  /\ Good(Rs!Go(<<"header", "-", 0>>, {})) /\ Good(Rs!Go(<<"closeLine", "-", 0>>, {}))
                      /\ Good(Rs!Go(<<"header", "-", 0>>, {"chunked"}))
    BY <1>1
  <2> QED BY <1>3, <1>4, ResponseMoves
<1>6. Good(Rs!Fail)
  BY ResponseFails
<1> HIDE DEF Good
<1>7. Good(Rs!CrlfStep(s, c))
  BY <1>2, <1>5, <1>6, Zenon DEF Rs!CrlfStep, Rs!S, Rs!Stay, Rs!At, Rs!BreakStates
<1> QED BY <1>7 DEF Good

(* The end of a recognised value: reported as a field, or not reported at  *)
(* all behind an empty Connection line.                                    *)
LEMMA ResponseWordEnd ==
    ASSUME NEW s, NEW w \in Words, NEW c \in {"CR", "LF"}, NEW m, NEW k \in Statuses, NEW acts \in {{}, {"field"}},
           acts = {"field"} => m = "value"
    PROVE  ResponseGood(s, Rs!WordEnd(w, c, acts), m, k)
<1> DEFINE Good(d) == ResponseGood(s, d, m, k)
<1>1. ASSUME NEW a \in {"header", "crlf", "closeLine", "crlfClose", "crlfTe"}, NEW more \in {{}, {"chunked"}, {"content_len"}}
      PROVE  Good(Rs!Go(<<a, "-", 0>>, acts \cup more))
  <2>1. ResponseState(a, "-", 0) /\ a \in LineStates \cup AfterEmpty /\ \A y : ResponseMark(a, "-", y)
    BY <1>1 DEF ResponseState, ResponseMark, LineStates
  <2>2. "mark" \notin acts \cup more
    BY <1>1
  <2>3. CASE acts = {}
    <3>1. acts \cup more \subseteq SilentActs
      BY <1>1, <2>3 DEF SilentActs
    <3> QED BY <2>1, <3>1, ResponseMoves
  <2>4. CASE acts = {"field"}
    <3>1. (acts \cup more) \cap Callbacks = {"field"}
      BY <1>1, <2>4 DEF Callbacks
    <3>2. (IF "mark" \in acts \cup more THEN Part(s) ELSE m) = "value"
      BY <2>2, <2>4
    <3> QED BY <2>1, <3>1, <3>2, ResponseField
  <2> QED BY <2>3, <2>4
<1>2. acts \cup {} = acts
  OBVIOUS
<1>3. /\ Good(Rs!Go(<<"closeLine", "-", 0>>, acts)) /\ Good(Rs!Go(<<"crlfClose", "-", 0>>, acts))
      /\ Good(Rs!Go(<<"header", "-", 0>>, acts \cup {"chunked"})) /\ Good(Rs!Go(<<"crlfTe", "-", 0>>, acts))
      /\ Good(Rs!Go(<<"header", "-", 0>>, acts \cup {"content_len"}))
      /\ Good(Rs!Go(<<"crlf", "-", 0>>, acts \cup {"content_len"}))
  <2> HIDE DEF Good
  <2>1. /\ Good(Rs!Go(<<"closeLine", "-", 0>>, acts \cup {})) /\ Good(Rs!Go(<<"crlfClose", "-", 0>>, acts \cup {}))
        /\ Good(Rs!Go(<<"crlfTe", "-", 0>>, acts \cup {}))
    BY <1>1
  <2>2. /\ Good(Rs!Go(<<"header", "-", 0>>, acts \cup {"chunked"}))
        /\ Good(Rs!Go(<<"header", "-", 0>>, acts \cup {"content_len"}))
        /\ Good(Rs!Go(<<"crlf", "-", 0>>, acts \cup {"content_len"}))
    BY <1>1
  <2> QED BY <1>2, <2>1, <2>2
<1> HIDE DEF Good
<1>4. Good(Rs!WordEnd(w, c, acts))
  BY <1>3, Zenon DEF Rs!WordEnd, Rs!S, Words
<1> QED BY <1>4 DEF Good

(* The blanks before a recognised value, or an empty one ... *)
LEMMA ResponseWordLws ==
    ASSUME NEW s, NEW c, NEW m, NEW k \in Statuses, NEW w \in Words, s = <<"lws", w, 0>>
    PROVE  ResponseGood(s, Rs!WordLwsStep(s, c), m, k)
<1> DEFINE Good(d) == ResponseGood(s, d, m, k)
<1>0. s[1] = "lws" /\ s[2] = w
  OBVIOUS
<1>1. {"mark"} \subseteq SilentActs /\ (IF "mark" \in {"mark"} THEN Part(s) ELSE m) = "value"
      /\ (IF "mark" \in {"mark", "field"} THEN Part(s) ELSE m) = "value" /\ {"mark", "field"} \cap Callbacks = {"field"}
  BY <1>0, PartIs DEF SilentActs, Callbacks
<1>2. /\ ResponseState("emptyLine", w, 0) /\ ResponseState("emptyCr", w, 0)
      /\ ResponseState("value", "-", 0) /\ ResponseMark("value", "-", "value") /\ "value" \in LineStates \cup AfterEmpty
      /\ ResponseState("lws", w, 0) /\ ResponseMark("lws", w, "value") /\ "lws" \in LineStates \cup AfterEmpty
  BY DEF ResponseState, ResponseMark, LineStates
<1>3. Good(Rs!Go(<<"emptyLine", w, 0>>, {"mark", "field"})) /\ Good(Rs!Go(<<"emptyCr", w, 0>>, {"mark", "field"}))
  BY <1>1, <1>2, ResponseField
<1>4. Good(Rs!Go(<<"value", "-", 0>>, {"mark"})) /\ Good(Rs!Go(<<"lws", w, 0>>, {"mark"}))
  BY <1>1, <1>2, ResponseMoves
<1>5. Good(Rs!Go(s, {"mark"}))
  BY <1>4
<1>6. Good(Rs!Go(Rs!Begun("any", w), {"mark"}))
  <2> DEFINE i == IF w = "cl" THEN 2 ELSE 1
  <2>1. ResponseState("any", w, i) /\ ResponseMark("any", w, "value") /\ "any" \in LineStates \cup AfterEmpty
    BY DEF ResponseState, ResponseMark, LineStates
  <2>2. Rs!Begun("any", w) = <<"any", w, i>>
    BY DEF Rs!Begun
  <2> HIDE DEF i
  <2>3. Good(Rs!Go(<<"any", w, i>>, {"mark"}))
    BY <1>1, <2>1, ResponseMoves
  <2> QED BY <2>2, <2>3
<1>7. /\ Good(Rs!Go(<<"emptyLine", s[2], 0>>, {"mark", "field"})) /\ Good(Rs!Go(<<"emptyCr", s[2], 0>>, {"mark", "field"}))
      /\ Good(Rs!Go(Rs!Begun("any", s[2]), {"mark"}))
  BY <1>0, <1>3, <1>6
<1>8. Good(Rs!Go(<<"value", "-", 0>>, {"mark"}))
  BY <1>4
<1> HIDE DEF Good
<1>9. ASSUME NEW u, u = s[2], Good(Rs!Go(<<"emptyLine", u, 0>>, {"mark", "field"})),
             Good(Rs!Go(<<"emptyCr", u, 0>>, {"mark", "field"})), Good(Rs!Go(Rs!Begun("any", u), {"mark"}))
      PROVE  Good(Rs!WordLwsStep(s, c))
  BY <1>5, <1>7, <1>8, Zenon DEF Rs!WordLwsStep, Rs!S, Rs!K
<1>10. Good(Rs!WordLwsStep(s, c))
  BY <1>7, <1>9
<1> QED BY <1>10 DEF Good

(* ... a value on the header's own line ... *)
LEMMA ResponseAny ==
    ASSUME NEW s, NEW c, NEW k \in Statuses, NEW w \in Words, NEW i \in {1, 2}, s = <<"any", w, i>>, w = "cl" => i = 2
    PROVE  ResponseGood(s, Rs!AnyValueStep(s, c), "value", k)
<1> DEFINE Good(d) == ResponseGood(s, d, "value", k)
<1>0. s[1] = "any" /\ s[2] = w /\ s[3] = i
  OBVIOUS
<1>1. {} \subseteq SilentActs /\ (IF "mark" \in {} THEN Part(s) ELSE "value") = "value"
  OBVIOUS
<1>2. ASSUME NEW j \in {i, 2} PROVE Good(Rs!Go(<<"any", w, j>>, {}))
  <2>1. ResponseState("any", w, j) /\ ResponseMark("any", w, "value") /\ "any" \in LineStates \cup AfterEmpty
    BY <1>2 DEF ResponseState, ResponseMark, LineStates
  <2> QED BY <1>1, <2>1, ResponseMoves
<1>3. Good(Rs!Go(s, {}))
  BY <1>2
<1>4. Good(Rs!Go(Rs!Reach(s, 2), {}))
  <2>1. Rs!Reach(s, 2) = <<"any", w, 2>>
    BY DEF Rs!Reach
  <2> QED BY <1>2, <2>1
<1>5. Good(Rs!ValueStep(<<"value", "-", 0>>, c))
  BY ResponseValue
<1>6. c \in {"CR", "LF"} => Good(Rs!WordEnd(s[2], c, {"field"}))
  BY <1>0, ResponseWordEnd
<1> HIDE DEF Good
<1>7. Good(Rs!AnyValueStep(s, c))
  BY <1>3, <1>4, <1>5, <1>6, Zenon DEF Rs!AnyValueStep, Rs!S, Rs!Stay, Rs!Ends
<1> QED BY <1>7 DEF Good

(* ... or, after an empty one, on the next line, where it may be a name. *)
LEMMA ResponseEmptyLine ==
    ASSUME NEW s, NEW c, NEW m, NEW k \in Statuses, s[1] = "emptyLine", NEW w \in Words, s[2] = w
    PROVE  ResponseGood(s, Rs!EmptyLineStep(s, c), m, k)
<1> DEFINE Good(d) == ResponseGood(s, d, m, k)
<1>1. {} \subseteq SilentActs /\ {"field_start"} \subseteq SilentActs /\ {"field_start", "mark"} \subseteq SilentActs
      /\ (IF "mark" \in {"field_start", "mark"} THEN Part(s) ELSE m) = "value"
  BY PartIs DEF SilentActs
<1>2. Good(Rs!Go(<<"final", s[2], 0>>, {"done"}))
  BY ResponseDone
<1>3. Good(Rs!Go(<<"emptyLineCr", s[2], 0>>, {})) /\ Good(Rs!Go(<<"fold", s[2], 0>>, {}))
  <2>1. \A y : /\ ResponseState("emptyLineCr", w, 0) /\ ResponseMark("emptyLineCr", w, y)
               /\ ResponseState("fold", w, 0) /\ ResponseMark("fold", w, y)
    BY DEF ResponseState, ResponseMark
  <2>2. "emptyLineCr" \in LineStates \cup AfterEmpty /\ "fold" \in LineStates \cup AfterEmpty
    BY DEF AfterEmpty
  <2> QED BY <1>1, <2>1, <2>2, ResponseMoves
<1>4. Good(Rs!Go(<<"nameCl", "-", 0>>, {"field_start"}))
  <2>1. "nameCl" \in LineStates \cup AfterEmpty /\ ResponseState("nameCl", "-", 0) /\ \A y : ResponseMark("nameCl", "-", y)
    BY DEF AfterEmpty, ResponseState, ResponseMark
  <2> QED BY <1>1, <2>1, ResponseMoves
<1>5. Good(Rs!Go(<<"nameCk", "-", 0>>, {"field_start", "mark"}))
  <2>1. "nameCk" \in LineStates \cup AfterEmpty /\ ResponseState("nameCk", "-", 0) /\ ResponseMark("nameCk", "-", "value")
    BY DEF AfterEmpty, ResponseState, ResponseMark
  <2> QED BY <1>1, <2>1, ResponseMoves
<1>6. Good(Rs!Go(<<"nameIsValue", s[2], 0>>, {"field_start", "mark"}))
  <2>1. "nameIsValue" \in LineStates \cup AfterEmpty /\ ResponseState("nameIsValue", w, 0)
        /\ ResponseMark("nameIsValue", w, "value")
    BY DEF AfterEmpty, ResponseState, ResponseMark
  <2> QED BY <1>1, <2>1, ResponseMoves
<1>7. Good(Rs!LineStart(c, {}))
  BY ResponseLineStart
<1> HIDE DEF Good
<1>8. Good(Rs!EmptyLineStep(s, c))
  BY <1>2, <1>3, <1>4, <1>5, <1>6, <1>7, Zenon DEF Rs!EmptyLineStep, Rs!S, Rs!K, Rs!Stay
<1> QED BY <1>8 DEF Good

(* The blanks and line breaks behind an empty value. *)
LEMMA ResponseFold ==
    ASSUME NEW s, NEW c, NEW m, NEW k \in Statuses, s[1] \in {"emptyCr", "emptyLineCr", "fold"}, NEW w \in Words, s[2] = w
    PROVE  ResponseGood(s, Rs!FoldStep(s, c), m, k)
<1> DEFINE Good(d) == ResponseGood(s, d, m, k)
           acts == IF s[2] = "conn" THEN {} ELSE {"mark"}
<1>1. {} \subseteq SilentActs /\ acts \subseteq SilentActs /\ (w # "conn" => (IF "mark" \in acts THEN Part(s) ELSE m) = "value")
  BY PartIs DEF SilentActs
<1>2. Good(Rs!Go(<<"final", s[2], 0>>, {"done"}))
  BY ResponseDone
<1>3. Good(Rs!Go(<<"emptyLine", s[2], 0>>, {})) /\ Good(Rs!Go(<<"fold", s[2], 0>>, {}))
  <2>1. \A y : /\ ResponseState("emptyLine", w, 0) /\ ResponseMark("emptyLine", w, y)
               /\ ResponseState("fold", w, 0) /\ ResponseMark("fold", w, y)
    BY DEF ResponseState, ResponseMark
  <2>2. "emptyLine" \in LineStates \cup AfterEmpty /\ "fold" \in LineStates \cup AfterEmpty
    BY DEF AfterEmpty
  <2> QED BY <1>1, <2>1, <2>2, ResponseMoves
<1>4. Good(Rs!Go(Rs!Begun("must", s[2]), acts))
  <2> DEFINE i == IF w = "cl" THEN 2 ELSE 1
  <2>1. ResponseState("must", w, i) /\ "must" \in LineStates \cup AfterEmpty
    BY DEF ResponseState, AfterEmpty
  <2>2. Rs!Begun("must", w) = <<"must", w, i>>
    BY DEF Rs!Begun
  <2>3. ResponseMark("must", w, IF "mark" \in acts THEN Part(s) ELSE m)
    BY <1>1 DEF ResponseMark
  <2> HIDE DEF i, acts
  <2>4. Good(Rs!Go(<<"must", w, i>>, acts))
    BY <1>1, <2>1, <2>3, ResponseMoves
  <2> QED BY <2>2, <2>4
<1>5. Good(Rs!Fail)
  BY ResponseFails
<1> HIDE DEF Good
<1>6. Good(Rs!FoldStep(s, c))
  BY <1>2, <1>3, <1>4, <1>5, Zenon DEF Rs!FoldStep, Rs!K, Rs!Stay
<1> QED BY <1>6 DEF Good

(* A value that must be the word. *)
LEMMA ResponseMust ==
    ASSUME NEW s, NEW c, NEW m, NEW k \in Statuses, NEW w \in Words, NEW i \in {1, 2}, s = <<"must", w, i>>,
           w = "cl" => i = 2, w # "conn" => m = "value"
    PROVE  ResponseGood(s, Rs!MustValueStep(s, c), m, k)
<1> DEFINE Good(d) == ResponseGood(s, d, m, k)
           acts == IF s[2] = "conn" THEN {} ELSE {"field"}
<1>0. s[1] = "must" /\ s[2] = w /\ s[3] = i
  OBVIOUS
<1>1. {} \subseteq SilentActs /\ (IF "mark" \in {} THEN Part(s) ELSE m) = m
  OBVIOUS
<1>2. ASSUME NEW j \in {i, 2} PROVE Good(Rs!Go(<<"must", w, j>>, {}))
  <2>1. ResponseState("must", w, j) /\ ResponseMark("must", w, m) /\ "must" \in LineStates \cup AfterEmpty
    BY <1>2 DEF ResponseState, ResponseMark, AfterEmpty
  <2> QED BY <1>1, <2>1, ResponseMoves
<1>3. Good(Rs!Go(s, {}))
  BY <1>2
<1>4. Good(Rs!Go(Rs!Reach(s, 2), {}))
  <2>1. Rs!Reach(s, 2) = <<"must", w, 2>>
    BY DEF Rs!Reach
  <2> QED BY <1>2, <2>1
<1>5. c \in {"CR", "LF"} => Good(Rs!WordEnd(s[2], c, acts))
  BY <1>0, ResponseWordEnd
<1>6. Good(Rs!Fail)
  BY ResponseFails
<1> HIDE DEF Good
<1>7. Good(Rs!MustValueStep(s, c))
  BY <1>3, <1>4, <1>5, <1>6, Zenon DEF Rs!MustValueStep, Rs!Stay, Rs!Ends
<1> QED BY <1>7 DEF Good

(* A text that may be the word or a name. *)
LEMMA ResponseNameIsValue ==
    ASSUME NEW s, NEW c, NEW m, NEW k \in Statuses, ResponseFits(s, m, k), s[1] = "nameIsValue"
    PROVE  ResponseGood(s, Rs!NameIsValueStep(s, c), m, k)
<1> DEFINE Good(d) == ResponseGood(s, d, m, k)
           acts == IF s[2] = "conn" THEN {} ELSE {"field"}
<1>1. s[2] \in Words /\ (s[2] # "conn" => m = "value") /\ k \in Seq(Callbacks)
  BY OrderTypes DEF ResponseFits, ResponseAt, ResponseState, ResponseMark
<1>2. c \in {"CR", "LF"} => Good(Rs!WordEnd(s[2], c, acts))
  BY <1>1, ResponseWordEnd
<1>3. Good(Rs!Go(s, {}))
  BY <1>1, ResponseStays
<1>4. Good(Rs!NameStep(<<"name", "-", 0>>, c))
  <2> DEFINE u == <<"name", "-", 0>>
  <2>1. u[1] = "name"
    OBVIOUS
  <2> HIDE DEF u
  <2>2. u[1] \in Rs!NameStates
    BY <2>1 DEF Rs!NameStates
  <2>3. Good(Rs!NameStep(u, c))
    BY <2>1, <2>2, ResponseName
  <2> QED BY <2>3 DEF u
<1> HIDE DEF Good
<1>5. Good(Rs!NameIsValueStep(s, c))
  BY <1>2, <1>3, <1>4, Zenon DEF Rs!NameIsValueStep, Rs!S, Rs!Stay, Rs!Ends
<1> QED BY <1>5 DEF Good

(* Any character of a response: the switch over the states. *)
LEMMA ResponseDelta ==
    ASSUME NEW s, NEW c, NEW m, NEW k, ResponseFits(s, m, k), Reading(s)
    PROVE  ResponseGood(s, Rs!Delta(s, c), m, k)
<1> DEFINE Good(d) == ResponseGood(s, d, m, k)
<1>0. s = <<s[1], s[2], s[3]>> /\ ResponseAt(s[1], s[2], s[3], m, k)
  BY DEF ResponseFits
<1>1. s[1] \in Rs!ChunkStates => Good(Rs!ChunkDelta(s, c))
  <2>1. s[1] = "chunkSize" => Good(Rs!ChunkSizeStep(s, c))
    BY ResponseChunkSize
  <2>2. s[1] \in {"ext", "extName"} => Good(Rs!ExtNameStep(s, c))
    BY ResponseExtName
  <2>3. s[1] \in {"extEq", "extValue"} => Good(Rs!ExtValueStep(s, c))
    BY ResponseExtValue
  <2> HIDE DEF Good
  <2> QED BY <2>1, <2>2, <2>3, Zenon DEF Rs!ChunkDelta, Rs!ChunkStates, Rs!At
<1>2. s[1] \in Rs!FirstStates => Good(Rs!FirstDelta(s, c))
  <2>1. s[1] = "version" => Good(Rs!VersionStep(s, c))
    BY ResponseVersion
  <2>2. s[1] \in {"status0", "status"} => Good(Rs!StatusStep(s, c))
    BY ResponseStatus
  <2>3. s[1] \in {"reason0", "reason"} => Good(Rs!ReasonStep(s, c))
    BY ResponseReason
  <2> HIDE DEF Good
  <2> QED BY <2>1, <2>2, <2>3, Zenon DEF Rs!FirstDelta, Rs!FirstStates, Rs!At
<1>3. s[1] \in LineStates \cup AfterEmpty => k \in Statuses
  BY <1>0 DEF ResponseAt, ResponseCalls
<1>4. s[1] \in {"emptyLine", "emptyCr", "emptyLineCr", "fold", "must", "nameIsValue", "any", "named"} => s[2] \in Words
  BY <1>0 DEF ResponseAt, ResponseState
<1>5. s[1] \in {"any", "must"} => s[3] \in {1, 2} /\ (s[2] = "cl" => s[3] = 2)
  BY <1>0 DEF ResponseAt, ResponseState
<1>6. /\ s[1] \in {"value", "any", "nameCk"} => m = "value"
      /\ s[1] = "must" /\ s[2] # "conn" => m = "value"
  BY <1>0 DEF ResponseAt, ResponseMark
<1>7. s[1] \in Rs!FoldStates => Good(Rs!FoldDelta(s, c))
  <2>1. s[1] = "emptyLine" => Good(Rs!EmptyLineStep(s, c))
    BY <1>3, <1>4, ResponseEmptyLine DEF AfterEmpty
  <2>2. s[1] \in {"emptyCr", "emptyLineCr", "fold"} => Good(Rs!FoldStep(s, c))
    BY <1>3, <1>4, ResponseFold DEF AfterEmpty
  <2>3. s[1] = "must" => Good(Rs!MustValueStep(s, c))
    <3> HAVE s[1] = "must"
    <3>1. k \in Statuses /\ s[2] \in Words /\ s[3] \in {1, 2} /\ s = <<"must", s[2], s[3]>>
      BY <1>0, <1>3, <1>4, <1>5 DEF AfterEmpty
    <3> QED BY <3>1, <1>5, <1>6, ResponseMust
  <2>4. s[1] = "nameIsValue" => Good(Rs!NameIsValueStep(s, c))
    BY <1>3, ResponseNameIsValue DEF AfterEmpty
  <2> HIDE DEF Good
  <2> QED BY <2>1, <2>2, <2>3, <2>4, Zenon DEF Rs!FoldDelta, Rs!FoldStates, Rs!At
<1>8. s[1] = "start" => Good(Rs!StartStep(c))
  BY ResponseStart
<1>9. s[1] \in {"header", "closeLine"} => Good(Rs!HeaderStep(s, c))
  <2> HAVE s[1] \in {"header", "closeLine"}
  <2>1. k \in Statuses
    BY <1>3 DEF LineStates
  <2>2. PICK acts \in {{}, {"close"}} : acts = IF Rs!At(s) = "closeLine" THEN {"close"} ELSE {}
    OBVIOUS
  <2>3. Good(Rs!LineStart(c, acts))
    BY <2>1, ResponseLineStart
  <2> QED BY <2>2, <2>3 DEF Rs!HeaderStep
<1>10. s[1] \in Rs!NameStates => Good(Rs!NameStep(s, c))
  BY <1>3, <1>4, <1>6, ResponseName DEF Rs!NameStates, LineStates, AfterEmpty
<1>11. s = <<"lws", "-", 0>> => Good(Rs!LwsStep(s, c))
  BY <1>3, ResponseLws DEF LineStates
<1>12. s[1] = "lws" /\ s # <<"lws", "-", 0>> => Good(Rs!WordLwsStep(s, c))
  <2> HAVE s[1] = "lws" /\ s # <<"lws", "-", 0>>
  <2>1. k \in Statuses /\ s[2] \in Words \cup {"-"} /\ s[3] = 0
    BY <1>0, <1>3 DEF LineStates, ResponseAt, ResponseState
  <2>2. s = <<"lws", s[2], 0>> /\ s[2] \in Words
    BY <1>0, <2>1
  <2> QED BY <2>1, <2>2, ResponseWordLws
<1>13. s[1] = "value" => Good(Rs!ValueStep(s, c))
  <2> HAVE s[1] = "value"
  <2>1. k \in Statuses /\ m = "value" /\ s = <<"value", s[2], s[3]>>
    BY <1>0, <1>3, <1>6 DEF LineStates
  <2> QED BY <2>1, ResponseValue
<1>14. s[1] \in Rs!BreakStates => Good(Rs!CrlfStep(s, c))
  BY ResponseCrlf
<1>15. s[1] = "any" => Good(Rs!AnyValueStep(s, c))
  <2> HAVE s[1] = "any"
  <2>1. k \in Statuses /\ m = "value" /\ s[2] \in Words /\ s[3] \in {1, 2} /\ s = <<"any", s[2], s[3]>>
    BY <1>0, <1>3, <1>4, <1>5, <1>6 DEF LineStates
  <2> QED BY <2>1, <1>5, ResponseAny
<1>16. Good(Rs!Fail)
  BY ResponseFails
<1> HIDE DEF Good
<1>17. Good(Rs!Delta(s, c))
  BY <1>1, <1>2, <1>7, <1>8, <1>9, <1>10, <1>11, <1>12, <1>13, <1>14, <1>15, <1>16, Zenon DEF Rs!Delta, Rs!At, Rs!S
<1> QED BY <1>17 DEF Good

----------------------------------------------------------------------------
(* Header lines, read as lines *)

\* The lines on which a recognised name stands, with its colon, with the first letter of its
\* value and with its value.
Named  == [conn |-> <<"c", "n">>, te |-> <<"t", "r">>, cl |-> <<"c", "t">>]
Opened == [conn |-> {<<"c", "n", ":">>, <<"c", "n", ":", "SP">>}, te |-> {<<"t", "r", ":">>, <<"t", "r", ":", "SP">>},
           cl |-> {<<"c", "t", ":">>, <<"c", "t", ":", "SP">>}]
Half   == [conn |-> {<<"c", "n", ":", "c">>, <<"c", "n", ":", "SP", "c">>},
           te |-> {<<"t", "r", ":", "c">>, <<"t", "r", ":", "SP", "c">>}, cl |-> {}]
Asked  == [conn |-> "close", te |-> "chunked", cl |-> "content_len"]
Whole(w) == KnownOf[Asked[w]]

(* The lines that are recognised. *)
LEMMA KnownLinesAre ==
    KnownLines = {<<"c", "n", ":", "c", "l">>, <<"c", "n", ":", "SP", "c", "l">>, <<"t", "r", ":", "c", "k">>,
                  <<"t", "r", ":", "SP", "c", "k">>, <<"c", "t", ":", "0">>, <<"c", "t", ":", "SP", "0">>}
<1>1. /\ KnownOf["close"] = {<<"c", "n", ":", "c", "l">>, <<"c", "n", ":", "SP", "c", "l">>}
      /\ KnownOf["chunked"] = {<<"t", "r", ":", "c", "k">>, <<"t", "r", ":", "SP", "c", "k">>}
      /\ KnownOf["content_len"] = {<<"c", "t", ":", "0">>, <<"c", "t", ":", "SP", "0">>}
  BY DEF KnownOf
<1>2. KnownLines = KnownOf["close"] \cup KnownOf["chunked"] \cup KnownOf["content_len"]
  BY DEF KnownLines, Headers
<1> QED BY <1>1, <1>2

(* Blanks count as one and digits as another character. *)
LEMMA LikeIs ==
    ASSUME NEW c
    PROVE  /\ c \in Rs!Space => Like(c) = "SP"
           /\ c \in Rs!Digit => Like(c) = "0"
           /\ c \notin Rs!Space \cup Rs!Digit => Like(c) = c /\ c \notin {"SP", "0"}
           /\ Rs!Space \cap Rs!Digit = {}
           /\ \A x \in {"c", "n", "t", "r", ":", "l", "k"} : x \notin Rs!Space \cup Rs!Digit
  BY DEF Like, Rs!Space, Rs!Digit

\* l agrees with k as far as it goes.
Starts(l, k) == Len(l) <= Len(k) /\ \A i \in 1 .. Len(l) : k[i] = l[i]

(* A line begins a recognised one if it agrees with one of them. *)
LEMMA BeginsIs ==
    ASSUME NEW l
    PROVE  Begins(l) <=> \/ Starts(l, <<"c", "n", ":", "c", "l">>) \/ Starts(l, <<"c", "n", ":", "SP", "c", "l">>)
                         \/ Starts(l, <<"t", "r", ":", "c", "k">>) \/ Starts(l, <<"t", "r", ":", "SP", "c", "k">>)
                         \/ Starts(l, <<"c", "t", ":", "0">>) \/ Starts(l, <<"c", "t", ":", "SP", "0">>)
  BY KnownLinesAre DEF Begins, Starts

(* Which lines of each length begin a recognised one. *)
LEMMA BeginsAre ==
    /\ \A a : Begins(<<a>>) <=> a \in {"c", "t"}
    /\ \A a, b : Begins(<<a, b>>) <=> (a = "c" /\ b \in {"n", "t"}) \/ (a = "t" /\ b = "r")
    /\ \A a, b, e : Begins(<<a, b, e>>) <=> e = ":" /\ ((a = "c" /\ b \in {"n", "t"}) \/ (a = "t" /\ b = "r"))
    /\ \A a, b, e, x : Begins(<<a, b, e, x>>)
         <=> e = ":" /\ \/ a = "c" /\ b = "n" /\ x \in {"c", "SP"}
                        \/ a = "t" /\ b = "r" /\ x \in {"c", "SP"}
                        \/ a = "c" /\ b = "t" /\ x \in {"0", "SP"}
    /\ \A a, b, e, x, y : Begins(<<a, b, e, x, y>>)
         <=> e = ":" /\ \/ a = "c" /\ b = "n" /\ ((x = "c" /\ y = "l") \/ (x = "SP" /\ y = "c"))
                        \/ a = "t" /\ b = "r" /\ ((x = "c" /\ y = "k") \/ (x = "SP" /\ y = "c"))
                        \/ a = "c" /\ b = "t" /\ x = "SP" /\ y = "0"
    /\ \A a, b, e, x, y, z : Begins(<<a, b, e, x, y, z>>)
         <=> e = ":" /\ x = "SP" /\ y = "c" /\ ((a = "c" /\ b = "n" /\ z = "l") \/ (a = "t" /\ b = "r" /\ z = "k"))
    /\ \A a, b, e, x, y, z, u : ~Begins(<<a, b, e, x, y, z, u>>)
<1>1. \A a : Begins(<<a>>) <=> a \in {"c", "t"}
  <2> TAKE a
  <2>1. Starts(<<a>>, <<"c", "n", ":", "c", "l">>) <=> a = "c"
    BY DEF Starts
  <2>2. Starts(<<a>>, <<"c", "n", ":", "SP", "c", "l">>) <=> a = "c"
    BY DEF Starts
  <2>3. Starts(<<a>>, <<"t", "r", ":", "c", "k">>) <=> a = "t"
    BY DEF Starts
  <2>4. Starts(<<a>>, <<"t", "r", ":", "SP", "c", "k">>) <=> a = "t"
    BY DEF Starts
  <2>5. Starts(<<a>>, <<"c", "t", ":", "0">>) <=> a = "c"
    BY DEF Starts
  <2>6. Starts(<<a>>, <<"c", "t", ":", "SP", "0">>) <=> a = "c"
    BY DEF Starts
  <2> QED BY <2>1, <2>2, <2>3, <2>4, <2>5, <2>6, BeginsIs
<1>2. \A a, b : Begins(<<a, b>>) <=> (a = "c" /\ b \in {"n", "t"}) \/ (a = "t" /\ b = "r")
  <2> TAKE a, b
  <2>1. Starts(<<a, b>>, <<"c", "n", ":", "c", "l">>) <=> a = "c" /\ b = "n"
    BY DEF Starts
  <2>2. Starts(<<a, b>>, <<"c", "n", ":", "SP", "c", "l">>) <=> a = "c" /\ b = "n"
    BY DEF Starts
  <2>3. Starts(<<a, b>>, <<"t", "r", ":", "c", "k">>) <=> a = "t" /\ b = "r"
    BY DEF Starts
  <2>4. Starts(<<a, b>>, <<"t", "r", ":", "SP", "c", "k">>) <=> a = "t" /\ b = "r"
    BY DEF Starts
  <2>5. Starts(<<a, b>>, <<"c", "t", ":", "0">>) <=> a = "c" /\ b = "t"
    BY DEF Starts
  <2>6. Starts(<<a, b>>, <<"c", "t", ":", "SP", "0">>) <=> a = "c" /\ b = "t"
    BY DEF Starts
  <2> QED BY <2>1, <2>2, <2>3, <2>4, <2>5, <2>6, BeginsIs
<1>3. \A a, b, e : Begins(<<a, b, e>>) <=> e = ":" /\ ((a = "c" /\ b \in {"n", "t"}) \/ (a = "t" /\ b = "r"))
  <2> TAKE a, b, e
  <2>1. Starts(<<a, b, e>>, <<"c", "n", ":", "c", "l">>) <=> a = "c" /\ b = "n" /\ e = ":"
    BY DEF Starts
  <2>2. Starts(<<a, b, e>>, <<"c", "n", ":", "SP", "c", "l">>) <=> a = "c" /\ b = "n" /\ e = ":"
    BY DEF Starts
  <2>3. Starts(<<a, b, e>>, <<"t", "r", ":", "c", "k">>) <=> a = "t" /\ b = "r" /\ e = ":"
    BY DEF Starts
  <2>4. Starts(<<a, b, e>>, <<"t", "r", ":", "SP", "c", "k">>) <=> a = "t" /\ b = "r" /\ e = ":"
    BY DEF Starts
  <2>5. Starts(<<a, b, e>>, <<"c", "t", ":", "0">>) <=> a = "c" /\ b = "t" /\ e = ":"
    BY DEF Starts
  <2>6. Starts(<<a, b, e>>, <<"c", "t", ":", "SP", "0">>) <=> a = "c" /\ b = "t" /\ e = ":"
    BY DEF Starts
  <2> QED BY <2>1, <2>2, <2>3, <2>4, <2>5, <2>6, BeginsIs
<1>4. \A a, b, e, x : Begins(<<a, b, e, x>>)
         <=> e = ":" /\ \/ a = "c" /\ b = "n" /\ x \in {"c", "SP"}
                        \/ a = "t" /\ b = "r" /\ x \in {"c", "SP"}
                        \/ a = "c" /\ b = "t" /\ x \in {"0", "SP"}
  <2> TAKE a, b, e, x
  <2>1. Starts(<<a, b, e, x>>, <<"c", "n", ":", "c", "l">>) <=> a = "c" /\ b = "n" /\ e = ":" /\ x = "c"
    BY DEF Starts
  <2>2. Starts(<<a, b, e, x>>, <<"c", "n", ":", "SP", "c", "l">>) <=> a = "c" /\ b = "n" /\ e = ":" /\ x = "SP"
    BY DEF Starts
  <2>3. Starts(<<a, b, e, x>>, <<"t", "r", ":", "c", "k">>) <=> a = "t" /\ b = "r" /\ e = ":" /\ x = "c"
    BY DEF Starts
  <2>4. Starts(<<a, b, e, x>>, <<"t", "r", ":", "SP", "c", "k">>) <=> a = "t" /\ b = "r" /\ e = ":" /\ x = "SP"
    BY DEF Starts
  <2>5. Starts(<<a, b, e, x>>, <<"c", "t", ":", "0">>) <=> a = "c" /\ b = "t" /\ e = ":" /\ x = "0"
    BY DEF Starts
  <2>6. Starts(<<a, b, e, x>>, <<"c", "t", ":", "SP", "0">>) <=> a = "c" /\ b = "t" /\ e = ":" /\ x = "SP"
    BY DEF Starts
  <2> QED BY <2>1, <2>2, <2>3, <2>4, <2>5, <2>6, BeginsIs
<1>5. \A a, b, e, x, y : Begins(<<a, b, e, x, y>>)
         <=> e = ":" /\ \/ a = "c" /\ b = "n" /\ ((x = "c" /\ y = "l") \/ (x = "SP" /\ y = "c"))
                        \/ a = "t" /\ b = "r" /\ ((x = "c" /\ y = "k") \/ (x = "SP" /\ y = "c"))
                        \/ a = "c" /\ b = "t" /\ x = "SP" /\ y = "0"
  <2> TAKE a, b, e, x, y
  <2>1. Starts(<<a, b, e, x, y>>, <<"c", "n", ":", "c", "l">>) <=> a = "c" /\ b = "n" /\ e = ":" /\ x = "c" /\ y = "l"
    BY DEF Starts
  <2>2. Starts(<<a, b, e, x, y>>, <<"c", "n", ":", "SP", "c", "l">>) <=> a = "c" /\ b = "n" /\ e = ":" /\ x = "SP" /\ y = "c"
    BY DEF Starts
  <2>3. Starts(<<a, b, e, x, y>>, <<"t", "r", ":", "c", "k">>) <=> a = "t" /\ b = "r" /\ e = ":" /\ x = "c" /\ y = "k"
    BY DEF Starts
  <2>4. Starts(<<a, b, e, x, y>>, <<"t", "r", ":", "SP", "c", "k">>) <=> a = "t" /\ b = "r" /\ e = ":" /\ x = "SP" /\ y = "c"
    BY DEF Starts
  <2>5. ~Starts(<<a, b, e, x, y>>, <<"c", "t", ":", "0">>)
    BY DEF Starts
  <2>6. Starts(<<a, b, e, x, y>>, <<"c", "t", ":", "SP", "0">>) <=> a = "c" /\ b = "t" /\ e = ":" /\ x = "SP" /\ y = "0"
    BY DEF Starts
  <2> QED BY <2>1, <2>2, <2>3, <2>4, <2>5, <2>6, BeginsIs
<1>6. \A a, b, e, x, y, z : Begins(<<a, b, e, x, y, z>>)
         <=> e = ":" /\ x = "SP" /\ y = "c" /\ ((a = "c" /\ b = "n" /\ z = "l") \/ (a = "t" /\ b = "r" /\ z = "k"))
  <2> TAKE a, b, e, x, y, z
  <2>1. ~Starts(<<a, b, e, x, y, z>>, <<"c", "n", ":", "c", "l">>)
    BY DEF Starts
  <2>2. Starts(<<a, b, e, x, y, z>>, <<"c", "n", ":", "SP", "c", "l">>) <=> a = "c" /\ b = "n" /\ e = ":" /\ x = "SP" /\ y = "c" /\ z = "l"
    BY DEF Starts
  <2>3. ~Starts(<<a, b, e, x, y, z>>, <<"t", "r", ":", "c", "k">>)
    BY DEF Starts
  <2>4. Starts(<<a, b, e, x, y, z>>, <<"t", "r", ":", "SP", "c", "k">>) <=> a = "t" /\ b = "r" /\ e = ":" /\ x = "SP" /\ y = "c" /\ z = "k"
    BY DEF Starts
  <2>5. ~Starts(<<a, b, e, x, y, z>>, <<"c", "t", ":", "0">>)
    BY DEF Starts
  <2>6. ~Starts(<<a, b, e, x, y, z>>, <<"c", "t", ":", "SP", "0">>)
    BY DEF Starts
  <2> QED BY <2>1, <2>2, <2>3, <2>4, <2>5, <2>6, BeginsIs
<1>7. \A a, b, e, x, y, z, u : ~Begins(<<a, b, e, x, y, z, u>>)
  <2> TAKE a, b, e, x, y, z, u
  <2>1. ~Starts(<<a, b, e, x, y, z, u>>, <<"c", "n", ":", "c", "l">>)
    BY DEF Starts
  <2>2. ~Starts(<<a, b, e, x, y, z, u>>, <<"c", "n", ":", "SP", "c", "l">>)
    BY DEF Starts
  <2>3. ~Starts(<<a, b, e, x, y, z, u>>, <<"t", "r", ":", "c", "k">>)
    BY DEF Starts
  <2>4. ~Starts(<<a, b, e, x, y, z, u>>, <<"t", "r", ":", "SP", "c", "k">>)
    BY DEF Starts
  <2>5. ~Starts(<<a, b, e, x, y, z, u>>, <<"c", "t", ":", "0">>)
    BY DEF Starts
  <2>6. ~Starts(<<a, b, e, x, y, z, u>>, <<"c", "t", ":", "SP", "0">>)
    BY DEF Starts
  <2> QED BY <2>1, <2>2, <2>3, <2>4, <2>5, <2>6, BeginsIs
<1> QED BY <1>1, <1>2, <1>3, <1>4, <1>5, <1>6, <1>7

(* What a character makes of a line that is kept. *)
LEMMA LineGrows ==
    ASSUME NEW l, NEW c, ~Repeats(l, c), NEW k, k = Append(l, Like(c))
    PROVE  LineWith(l, c) = IF Begins(k) THEN k ELSE Other
  BY DEF LineWith

(* What one that says nothing new makes of it. *)
LEMMA LineRepeats == ASSUME NEW l, NEW c, Repeats(l, c) PROVE LineWith(l, c) = l
  BY DEF LineWith

(* Names: the first letters, the second ones, the colon; a line that is not recognised
   stays so. *)
LEMMA NameLines ==
    ASSUME NEW c
    PROVE  /\ LineWith(<<>>, c) = IF c \in {"c", "t"} THEN <<c>> ELSE Other
           /\ LineWith(<<"c">>, c) = IF c \in {"n", "t"} THEN <<"c", c>> ELSE Other
           /\ LineWith(<<"t">>, c) = IF c = "r" THEN <<"t", c>> ELSE Other
           /\ LineWith(Other, c) = Other
           /\ LineWith(<<"c", "n">>, c) = IF c = ":" THEN <<"c", "n", ":">> ELSE Other
           /\ LineWith(<<"t", "r">>, c) = IF c = ":" THEN <<"t", "r", ":">> ELSE Other
           /\ LineWith(<<"c", "t">>, c) = IF c = ":" THEN <<"c", "t", ":">> ELSE Other
<1> DEFINE e == Like(c)
<1>1. \A x \in {"c", "t", "n", "r", ":"} : e = x <=> c = x
  BY LikeIs
<1> HIDE DEF e
<1>2. LineWith(<<>>, c) = IF c \in {"c", "t"} THEN <<c>> ELSE Other
  <2>1. ~Repeats(<<>>, c) /\ <<e>> = Append(<<>>, e)
    BY DEF Repeats
  <2>2. Begins(<<e>>) <=> e \in {"c", "t"}
    BY BeginsAre
  <2> QED BY <1>1, <2>1, <2>2, LineGrows DEF e
<1>3. LineWith(<<"c">>, c) = IF c \in {"n", "t"} THEN <<"c", c>> ELSE Other
  <2>1. ~Repeats(<<"c">>, c) /\ <<"c", e>> = Append(<<"c">>, e)
    BY DEF Repeats
  <2>2. Begins(<<"c", e>>) <=> e \in {"n", "t"}
    BY BeginsAre
  <2> QED BY <1>1, <2>1, <2>2, LineGrows DEF e
<1>4. LineWith(<<"t">>, c) = IF c = "r" THEN <<"t", c>> ELSE Other
  <2>1. ~Repeats(<<"t">>, c) /\ <<"t", e>> = Append(<<"t">>, e)
    BY DEF Repeats
  <2>2. Begins(<<"t", e>>) <=> e = "r"
    BY BeginsAre
  <2> QED BY <1>1, <2>1, <2>2, LineGrows DEF e
<1>5. LineWith(Other, c) = Other
  <2>1. ~Repeats(<<"other">>, c) /\ <<"other", e>> = Append(<<"other">>, e)
    BY DEF Repeats
  <2>2. ~Begins(<<"other", e>>)
    BY BeginsAre
  <2> QED BY <2>1, <2>2, LineGrows DEF e, Other
<1>6. ASSUME NEW a, NEW b, <<a, b>> \in {<<"c", "n">>, <<"t", "r">>, <<"c", "t">>}
      PROVE  LineWith(<<a, b>>, c) = IF c = ":" THEN <<a, b, ":">> ELSE Other
  <2>0. (a = "c" /\ b = "n") \/ (a = "t" /\ b = "r") \/ (a = "c" /\ b = "t")
    BY <1>6
  <2>1. ~Repeats(<<a, b>>, c) /\ <<a, b, e>> = Append(<<a, b>>, e)
    BY <2>0 DEF Repeats
  <2>2. Begins(<<a, b, e>>) <=> e = ":"
    BY <2>0, BeginsAre
  <2> QED BY <1>1, <2>1, <2>2, LineGrows DEF e
<1> QED BY <1>2, <1>3, <1>4, <1>5, <1>6

(* Values: blanks before them, their first character ... *)
LEMMA OpenLines ==
    ASSUME NEW w \in Words, NEW l \in Opened[w], NEW c
    PROVE  /\ c \in Rs!Space => LineWith(l, c) \in Opened[w]
           /\ c \notin Rs!Space /\ Rs!First(w, c) /\ w = "cl" => LineWith(l, c) \in Whole("cl")
           /\ c \notin Rs!Space /\ Rs!First(w, c) /\ w # "cl" => LineWith(l, c) \in Half[w]
           /\ c \notin Rs!Space /\ ~Rs!First(w, c) => LineWith(l, c) = Other
<1> DEFINE e == Like(c)
<1>1. /\ e = "c" <=> c = "c"
      /\ e = "SP" <=> c \in Rs!Space
      /\ e = "0" <=> c \in Rs!Digit
  BY LikeIs DEF Rs!Space, Rs!Digit
<1>2. Rs!First("conn", c) <=> c = "c"
  BY DEF Rs!First, Rs!ValueOf
<1>3. Rs!First("te", c) <=> c = "c"
  BY DEF Rs!First, Rs!ValueOf
<1>4. Rs!First("cl", c) <=> c \in Rs!Digit
  BY DEF Rs!First
<1> HIDE DEF e
<1>5. ASSUME NEW a, NEW b, NEW f, (b = "n" /\ a = "c" /\ f = "c") \/ (b = "r" /\ a = "t" /\ f = "c") \/ (b = "t" /\ a = "c" /\ f = "0")
      PROVE  /\ e = "SP" => LineWith(<<a, b, ":">>, c) = <<a, b, ":", "SP">>
             /\ e = f => LineWith(<<a, b, ":">>, c) = <<a, b, ":", f>>
             /\ e # "SP" /\ e # f => LineWith(<<a, b, ":">>, c) = Other
             /\ e = "SP" => LineWith(<<a, b, ":", "SP">>, c) = <<a, b, ":", "SP">>
             /\ e = f => LineWith(<<a, b, ":", "SP">>, c) = <<a, b, ":", "SP", f>>
             /\ e # "SP" /\ e # f => LineWith(<<a, b, ":", "SP">>, c) = Other
  <2>1. ~Repeats(<<a, b, ":">>, c) /\ <<a, b, ":", e>> = Append(<<a, b, ":">>, e)
    BY DEF Repeats
  <2>2. Begins(<<a, b, ":", e>>) <=> e \in {"SP", f}
    BY <1>5, BeginsAre
  <2>3. LineWith(<<a, b, ":">>, c) = IF e \in {"SP", f} THEN <<a, b, ":", e>> ELSE Other
    BY <2>1, <2>2, LineGrows DEF e
  <2>4. Begins(<<a, b, ":", "SP">>)
    BY <1>5, BeginsAre
  <2>5. e = "SP" => Repeats(<<a, b, ":", "SP">>, c)
    BY <2>4 DEF Repeats, e
  <2>6. e # "SP" => ~Repeats(<<a, b, ":", "SP">>, c)
    BY DEF Repeats, e
  <2>7. <<a, b, ":", "SP", e>> = Append(<<a, b, ":", "SP">>, e)
    OBVIOUS
  <2>8. Begins(<<a, b, ":", "SP", e>>) <=> e = f
    BY <1>5, BeginsAre
  <2>9. e = "SP" => LineWith(<<a, b, ":", "SP">>, c) = <<a, b, ":", "SP">>
    BY <2>5, LineRepeats
  <2>10. e # "SP" => LineWith(<<a, b, ":", "SP">>, c) = IF e = f THEN <<a, b, ":", "SP", e>> ELSE Other
    BY <2>6, <2>7, <2>8, LineGrows DEF e
  <2>11. f # "SP"
    BY <1>5
  <2> QED BY <2>3, <2>9, <2>10, <2>11
<1>6. CASE w = "conn"
  <2>1. l \in {<<"c", "n", ":">>, <<"c", "n", ":", "SP">>} /\ Opened[w] = {<<"c", "n", ":">>, <<"c", "n", ":", "SP">>}
        /\ Half[w] = {<<"c", "n", ":", "c">>, <<"c", "n", ":", "SP", "c">>}
    BY <1>6 DEF Opened, Half
  <2>2. /\ e = "SP" => LineWith(l, c) \in {<<"c", "n", ":">>, <<"c", "n", ":", "SP">>}
        /\ e = "c" => LineWith(l, c) \in {<<"c", "n", ":", "c">>, <<"c", "n", ":", "SP", "c">>}
        /\ e # "SP" /\ e # "c" => LineWith(l, c) = Other
    <3>1. CASE l = <<"c", "n", ":">>
      BY <1>5, <3>1
    <3>2. CASE l = <<"c", "n", ":", "SP">>
      BY <1>5, <3>2
    <3> QED BY <2>1, <3>1, <3>2
  <2> QED BY <1>1, <1>2, <1>6, <2>1, <2>2
<1>7. CASE w = "te"
  <2>1. l \in {<<"t", "r", ":">>, <<"t", "r", ":", "SP">>} /\ Opened[w] = {<<"t", "r", ":">>, <<"t", "r", ":", "SP">>}
        /\ Half[w] = {<<"t", "r", ":", "c">>, <<"t", "r", ":", "SP", "c">>}
    BY <1>7 DEF Opened, Half
  <2>2. /\ e = "SP" => LineWith(l, c) \in {<<"t", "r", ":">>, <<"t", "r", ":", "SP">>}
        /\ e = "c" => LineWith(l, c) \in {<<"t", "r", ":", "c">>, <<"t", "r", ":", "SP", "c">>}
        /\ e # "SP" /\ e # "c" => LineWith(l, c) = Other
    <3>1. CASE l = <<"t", "r", ":">>
      BY <1>5, <3>1
    <3>2. CASE l = <<"t", "r", ":", "SP">>
      BY <1>5, <3>2
    <3> QED BY <2>1, <3>1, <3>2
  <2> QED BY <1>1, <1>3, <1>7, <2>1, <2>2
<1>8. CASE w = "cl"
  <2>1. l \in {<<"c", "t", ":">>, <<"c", "t", ":", "SP">>} /\ Opened[w] = {<<"c", "t", ":">>, <<"c", "t", ":", "SP">>}
        /\ Whole("cl") = {<<"c", "t", ":", "0">>, <<"c", "t", ":", "SP", "0">>}
    BY <1>8 DEF Opened, Whole, Asked, KnownOf
  <2>2. /\ e = "SP" => LineWith(l, c) \in {<<"c", "t", ":">>, <<"c", "t", ":", "SP">>}
        /\ e = "0" => LineWith(l, c) \in {<<"c", "t", ":", "0">>, <<"c", "t", ":", "SP", "0">>}
        /\ e # "SP" /\ e # "0" => LineWith(l, c) = Other
    <3>1. CASE l = <<"c", "t", ":">>
      BY <1>5, <3>1
    <3>2. CASE l = <<"c", "t", ":", "SP">>
      BY <1>5, <3>2
    <3> QED BY <2>1, <3>1, <3>2
  <2> QED BY <1>1, <1>4, <1>8, <2>1, <2>2
<1> QED BY <1>6, <1>7, <1>8 DEF Words

(* ... the rest of a word ... *)
LEMMA HalfLines ==
    ASSUME NEW w \in {"conn", "te"}, NEW l \in Half[w], NEW c
    PROVE  /\ c = Rs!ValueOf[w][2] => LineWith(l, c) \in Whole(w)
           /\ c # Rs!ValueOf[w][2] => LineWith(l, c) = Other
<1> DEFINE e == Like(c)
<1>1. \A x \in {"l", "k"} : e = x <=> c = x
  BY LikeIs
<1> HIDE DEF e
<1>2. ASSUME NEW a, NEW b, NEW g, (b = "n" /\ a = "c" /\ g = "l") \/ (b = "r" /\ a = "t" /\ g = "k")
      PROVE  /\ LineWith(<<a, b, ":", "c">>, c) = IF e = g THEN <<a, b, ":", "c", g>> ELSE Other
             /\ LineWith(<<a, b, ":", "SP", "c">>, c) = IF e = g THEN <<a, b, ":", "SP", "c", g>> ELSE Other
  <2>1. ~Repeats(<<a, b, ":", "c">>, c) /\ <<a, b, ":", "c", e>> = Append(<<a, b, ":", "c">>, e)
    BY DEF Repeats
  <2>2. Begins(<<a, b, ":", "c", e>>) <=> e = g
    BY <1>2, BeginsAre
  <2>3. LineWith(<<a, b, ":", "c">>, c) = IF e = g THEN <<a, b, ":", "c", g>> ELSE Other
    BY <2>1, <2>2, LineGrows DEF e
  <2>4. ~Repeats(<<a, b, ":", "SP", "c">>, c) /\ <<a, b, ":", "SP", "c", e>> = Append(<<a, b, ":", "SP", "c">>, e)
    BY DEF Repeats
  <2>5. Begins(<<a, b, ":", "SP", "c", e>>) <=> e = g
    BY <1>2, BeginsAre
  <2>6. LineWith(<<a, b, ":", "SP", "c">>, c) = IF e = g THEN <<a, b, ":", "SP", "c", g>> ELSE Other
    BY <2>4, <2>5, LineGrows DEF e
  <2> QED BY <2>3, <2>6
<1>3. CASE w = "conn"
  <2>1. /\ l \in {<<"c", "n", ":", "c">>, <<"c", "n", ":", "SP", "c">>} /\ Rs!ValueOf[w][2] = "l"
        /\ Whole(w) = {<<"c", "n", ":", "c", "l">>, <<"c", "n", ":", "SP", "c", "l">>}
    BY <1>3 DEF Half, Whole, Asked, KnownOf, Rs!ValueOf
  <2>2. /\ e = "l" => LineWith(l, c) \in {<<"c", "n", ":", "c", "l">>, <<"c", "n", ":", "SP", "c", "l">>}
        /\ e # "l" => LineWith(l, c) = Other
    <3>1. CASE l = <<"c", "n", ":", "c">>
      BY <1>2, <3>1
    <3>2. CASE l = <<"c", "n", ":", "SP", "c">>
      BY <1>2, <3>2
    <3> QED BY <2>1, <3>1, <3>2
  <2> QED BY <1>1, <2>1, <2>2
<1>4. CASE w = "te"
  <2>1. /\ l \in {<<"t", "r", ":", "c">>, <<"t", "r", ":", "SP", "c">>} /\ Rs!ValueOf[w][2] = "k"
        /\ Whole(w) = {<<"t", "r", ":", "c", "k">>, <<"t", "r", ":", "SP", "c", "k">>}
    BY <1>4 DEF Half, Whole, Asked, KnownOf, Rs!ValueOf
  <2>2. /\ e = "k" => LineWith(l, c) \in {<<"t", "r", ":", "c", "k">>, <<"t", "r", ":", "SP", "c", "k">>}
        /\ e # "k" => LineWith(l, c) = Other
    <3>1. CASE l = <<"t", "r", ":", "c">>
      BY <1>2, <3>1
    <3>2. CASE l = <<"t", "r", ":", "SP", "c">>
      BY <1>2, <3>2
    <3> QED BY <2>1, <3>1, <3>2
  <2> QED BY <1>1, <2>1, <2>2
<1> QED BY <1>3, <1>4

(* ... and what follows it. *)
LEMMA WholeLines ==
    ASSUME NEW w \in Words, NEW l \in Whole(w), NEW c
    PROVE  /\ w = "cl" /\ c \in Rs!Digit => LineWith(l, c) = l
           /\ w # "cl" \/ c \notin Rs!Digit => LineWith(l, c) = Other
<1> DEFINE e == Like(c)
<1>1. e = "0" <=> c \in Rs!Digit
  BY LikeIs DEF Rs!Space, Rs!Digit
<1> HIDE DEF e
<1>2. CASE w # "cl"
  <2>1. l \in {<<"c", "n", ":", "c", "l">>, <<"c", "n", ":", "SP", "c", "l">>,
               <<"t", "r", ":", "c", "k">>, <<"t", "r", ":", "SP", "c", "k">>}
    BY <1>2 DEF Words, Whole, Asked, KnownOf
  <2>2. ASSUME NEW a, NEW b, NEW g \in {"l", "k"}
        PROVE  LineWith(<<a, b, ":", "c", g>>, c) = Other /\ LineWith(<<a, b, ":", "SP", "c", g>>, c) = Other
    <3>1. ~Repeats(<<a, b, ":", "c", g>>, c) /\ <<a, b, ":", "c", g, e>> = Append(<<a, b, ":", "c", g>>, e)
      BY DEF Repeats
    <3>2. ~Repeats(<<a, b, ":", "SP", "c", g>>, c) /\ <<a, b, ":", "SP", "c", g, e>> = Append(<<a, b, ":", "SP", "c", g>>, e)
      BY DEF Repeats
    <3>3. ~Begins(<<a, b, ":", "c", g, e>>) /\ ~Begins(<<a, b, ":", "SP", "c", g, e>>)
      BY BeginsAre
    <3> QED BY <3>1, <3>2, <3>3, LineGrows DEF e
  <2> QED BY <1>2, <2>1, <2>2
<1>3. CASE w = "cl"
  <2>1. l \in {<<"c", "t", ":", "0">>, <<"c", "t", ":", "SP", "0">>}
    BY <1>3 DEF Whole, Asked, KnownOf
  <2>2. Begins(<<"c", "t", ":", "0">>) /\ Begins(<<"c", "t", ":", "SP", "0">>)
    BY BeginsAre
  <2>3. ~Begins(<<"c", "t", ":", "0", e>>) /\ ~Begins(<<"c", "t", ":", "SP", "0", e>>)
    BY BeginsAre
  <2>4. e = "0" => Repeats(<<"c", "t", ":", "0">>, c) /\ Repeats(<<"c", "t", ":", "SP", "0">>, c)
    BY <2>2 DEF Repeats, e
  <2>5. e # "0" => ~Repeats(<<"c", "t", ":", "0">>, c) /\ ~Repeats(<<"c", "t", ":", "SP", "0">>, c)
    BY DEF Repeats, e
  <2>6. <<"c", "t", ":", "0", e>> = Append(<<"c", "t", ":", "0">>, e)
        /\ <<"c", "t", ":", "SP", "0", e>> = Append(<<"c", "t", ":", "SP", "0">>, e)
    OBVIOUS
  <2>7. e = "0" => LineWith(l, c) = l
    BY <2>1, <2>4, LineRepeats
  <2>8. e # "0" => LineWith(<<"c", "t", ":", "0">>, c) = Other /\ LineWith(<<"c", "t", ":", "SP", "0">>, c) = Other
    BY <2>3, <2>5, <2>6, LineGrows DEF e
  <2> QED BY <1>1, <1>3, <2>1, <2>7, <2>8
<1> QED BY <1>2, <1>3

(* What the lines ask for, and which of them have no value. *)
LEMMA LinesAsk ==
    /\ Asks(<<>>) = {} /\ Asks(Other) = {}
    /\ \A w \in Words : /\ \A l \in Opened[w] : IsEmpty(l)
                        /\ \A l \in Half[w] : Asks(l) = {}
                        /\ \A l \in Whole(w) : Asks(l) = {Asked[w]}
<1>1. /\ KnownOf["close"] = {<<"c", "n", ":", "c", "l">>, <<"c", "n", ":", "SP", "c", "l">>}
      /\ KnownOf["chunked"] = {<<"t", "r", ":", "c", "k">>, <<"t", "r", ":", "SP", "c", "k">>}
      /\ KnownOf["content_len"] = {<<"c", "t", ":", "0">>, <<"c", "t", ":", "SP", "0">>}
  BY DEF KnownOf
<1>2. \A l : /\ l \notin KnownOf["close"] /\ l \notin KnownOf["chunked"] /\ l \notin KnownOf["content_len"] => Asks(l) = {}
             /\ l \in KnownOf["close"] /\ l \notin KnownOf["chunked"] /\ l \notin KnownOf["content_len"] => Asks(l) = {"close"}
             /\ l \notin KnownOf["close"] /\ l \in KnownOf["chunked"] /\ l \notin KnownOf["content_len"] => Asks(l) = {"chunked"}
             /\ l \notin KnownOf["close"] /\ l \notin KnownOf["chunked"] /\ l \in KnownOf["content_len"] => Asks(l) = {"content_len"}
  BY DEF Asks, Headers
<1>3. Asks(<<>>) = {}
  BY <1>1, <1>2
<1>4. Asks(Other) = {}
  BY <1>1, <1>2 DEF Other
<1>5. \A w \in Words : \A l \in Opened[w] : IsEmpty(l)
  BY DEF Words, Opened, IsEmpty
<1>6. \A w \in Words : \A l \in Half[w] : Asks(l) = {}
  <2>1. Half["cl"] = {} /\ Half["conn"] = {<<"c", "n", ":", "c">>, <<"c", "n", ":", "SP", "c">>}
        /\ Half["te"] = {<<"t", "r", ":", "c">>, <<"t", "r", ":", "SP", "c">>}
    BY DEF Half
  <2>2. \A l \in Half["conn"] \cup Half["te"] : l \notin KnownOf["close"] \cup KnownOf["chunked"] \cup KnownOf["content_len"]
    BY <1>1, <2>1
  <2> QED BY <1>2, <2>1, <2>2 DEF Words
<1>7. \A w \in Words : \A l \in Whole(w) : Asks(l) = {Asked[w]}
  <2>1. Whole("conn") = KnownOf["close"] /\ Whole("te") = KnownOf["chunked"] /\ Whole("cl") = KnownOf["content_len"]
        /\ Asked["conn"] = "close" /\ Asked["te"] = "chunked" /\ Asked["cl"] = "content_len"
    BY DEF Whole, Asked
  <2>2. /\ \A l \in KnownOf["close"] : l \notin KnownOf["chunked"] /\ l \notin KnownOf["content_len"]
        /\ \A l \in KnownOf["chunked"] : l \notin KnownOf["close"] /\ l \notin KnownOf["content_len"]
        /\ \A l \in KnownOf["content_len"] : l \notin KnownOf["close"] /\ l \notin KnownOf["chunked"]
    BY <1>1
  <2> QED BY <1>2, <2>1, <2>2 DEF Words
<1> QED BY <1>3, <1>4, <1>5, <1>6, <1>7

----------------------------------------------------------------------------
(* The response parser: lines, names and flags, as long as no recognised header was empty *)

Own == [start |-> 1, len |-> 1]

\* field_start and field_len belong to the line that is being read.
NamesAt(a, n) ==
    /\ a \in {"name", "nameC", "nameT", "named", "extName"} => n.start = 1
    /\ a \in {"lws", "value", "any", "extEq", "extValue"}   => n = Own

\* What has been read of the line.
LineAt(a, w, i, l) ==
    /\ a \in {"header", "closeLine", "lastcr"} => l = <<>>
    /\ a \in {"name", "value"}                 => l = Other
    /\ a = "lws" /\ w = "-"                    => l = Other
    /\ a = "nameC"                             => l = <<"c">>
    /\ a = "nameT"                             => l = <<"t">>
    /\ a = "named"                             => l = Named[w]
    /\ a = "lws" /\ w # "-"                    => l \in Opened[w]
    /\ a = "any" /\ i = 1                      => l \in Half[w]
    /\ a = "any" /\ i = 2                      => l \in Whole(w)
    /\ a = "crlfClose"                         => l \in Whole("conn")
    /\ a = "crlfTe"                            => l \in Whole("te")

\* close is written behind its line, content_len at the end of its value.
FlagsAt(a, l, f, g) ==
    /\ a = "closeLine" => f \cup {"close"} = g
    /\ a = "crlf"      => f = g \cup Asks(l)
    /\ a \notin {"closeLine", "crlf", "error"} => f = g

LineFits(s, n, l, f, g) ==
    s[1] \notin AfterEmpty /\ NamesAt(s[1], n) /\ LineAt(s[1], s[2], s[3], l) /\ FlagsAt(s[1], l, f, g)

\* What a transition makes of the line, and the flags asked for.
LineAfter(s, c, l) == IF ~InHeaders(s) \/ c = "LF" THEN <<>>
                      ELSE IF c = "CR" THEN l ELSE LineWith(l, c)
ToldAfter(s, c, l, g) == g \cup Says(s, c, l)

LineGood(s, c, d, n, l, f, g) ==
    /\ LineFits(d.to, NameAfter(d, n), LineAfter(s, c, l), f \cup (d.acts \cap Headers), ToldAfter(s, c, l, g))
    /\ "field" \in d.acts => NameAfter(d, n) = Own

\* The offsets of the name after a transition with the actions acts.
NameWith(acts, n) == [start |-> IF "field_start" \in acts THEN 1 ELSE n.start,
                      len   |-> IF "field_len" \in acts THEN 1
                                ELSE IF "field_start" \in acts THEN 0 ELSE n.len]

(* The offsets of a name, as it begins and ends. *)
LEMMA NameWithIs ==
    ASSUME NEW acts, NEW n
    PROVE  /\ "field_start" \in acts \/ n.start = 1 => NameWith(acts, n).start = 1
           /\ n.start = 1 /\ "field_len" \in acts => NameWith(acts, n) = Own
           /\ n = Own /\ "field_start" \notin acts => NameWith(acts, n) = Own
  BY DEF NameWith, Own

(* A transition, by its parts. *)
LEMMA LineMove ==
    ASSUME NEW s, NEW c, NEW n, NEW l, NEW f, NEW g, NEW a, NEW w, NEW i, NEW acts, NEW l2, NEW f2, NEW g2,
           l2 = LineAfter(s, c, l), g2 = ToldAfter(s, c, l, g), f2 = f \cup (acts \cap Headers), a \notin AfterEmpty,
           LineAt(a, w, i, l2), FlagsAt(a, l2, f2, g2), NamesAt(a, NameWith(acts, n)),
           "field" \in acts => NameWith(acts, n) = Own
    PROVE  LineGood(s, c, Rs!Go(<<a, w, i>>, acts), n, l, f, g)
<1> DEFINE t == <<a, w, i>>
           d == Rs!Go(t, acts)
<1>1. t[1] = a /\ t[2] = w /\ t[3] = i
  OBVIOUS
<1> HIDE DEF t
<1>2. d.to = t /\ d.acts = acts
  BY DEF Rs!Go
<1> HIDE DEF d
<1>3. NameAfter(d, n) = NameWith(acts, n)
  BY <1>2 DEF NameAfter, NameWith
<1>4. LineFits(t, NameWith(acts, n), l2, f2, g2)
  BY <1>1 DEF LineFits
<1>5. LineGood(s, c, d, n, l, f, g)
  BY <1>2, <1>3, <1>4 DEF LineGood
<1> QED BY <1>5 DEF d, t

(* Nothing is asked of an error. *)
LEMMA LineFails == ASSUME NEW s, NEW c, NEW n, NEW l, NEW f, NEW g PROVE LineGood(s, c, Rs!Fail, n, l, f, g)
<1> DEFINE l2 == LineAfter(s, c, l)
           f2 == f \cup ({} \cap Headers)
           g2 == ToldAfter(s, c, l, g)
<1>1. \A x, y, z, u : LineAt("error", "-", 0, x) /\ FlagsAt("error", x, y, z) /\ NamesAt("error", u)
  BY DEF LineAt, FlagsAt, NamesAt
<1>2. "error" \notin AfterEmpty /\ "field" \notin {}
  BY DEF AfterEmpty
<1>3. LineGood(s, c, Rs!Go(<<"error", "-", 0>>, {}), n, l, f, g)
  BY <1>1, <1>2, LineMove
<1> QED BY <1>3 DEF Rs!Fail, Rs!Stay, Rs!S

----------------------------------------------------------------------------
(* Before the header lines *)

Before == {"start"} \cup Rs!ChunkStates \cup Rs!FirstStates

(* The parts of a first line and of a chunk header set no line, and a flag *)
(* only where the size of a chunk ends.                                    *)
LEMMA BeforeMoves ==
    ASSUME NEW s, s[1] \in Before, NEW c, NEW n, NEW l, NEW f, NEW acts, acts \cap Headers = Says(s, c, l),
           NEW a \in Before \cup {"final", "lastcr", "crlf", "header"}, NEW w, NEW i,
           NamesAt(a, NameWith(acts, n)), "field" \in acts => NameWith(acts, n) = Own
    PROVE  LineGood(s, c, Rs!Go(<<a, w, i>>, acts), n, l, f, f)
<1>1. ~InHeaders(s)
  BY DEF InHeaders, Before
<1> DEFINE f2 == f \cup (acts \cap Headers)
<1>2. <<>> = LineAfter(s, c, l) /\ f2 = ToldAfter(s, c, l, f)
  BY <1>1 DEF LineAfter, ToldAfter
<1> HIDE DEF f2
<1>3. a \notin AfterEmpty /\ LineAt(a, w, i, <<>>)
  BY DEF AfterEmpty, LineAt, Before, Rs!ChunkStates, Rs!FirstStates
<1>4. FlagsAt(a, <<>>, f2, f2)
  BY LinesAsk DEF FlagsAt, Before, Rs!ChunkStates, Rs!FirstStates
<1> QED BY <1>2, <1>3, <1>4, LineMove DEF f2

(* No other part says anything. *)
LEMMA BeforeSays ==
    ASSUME NEW s, s[1] \in Before, NEW c, NEW l
    PROVE  /\ s[1] # "chunkSize" \/ c \in Rs!XDigit => Says(s, c, l) = {}
           /\ s[1] = "chunkSize" /\ c \notin Rs!XDigit => Says(s, c, l) = {"chunked", "content_len"}
  BY DEF Says, InHeaders, Before

(* Transitions that report no field. *)
LEMMA BeforePlain ==
    ASSUME NEW s, s[1] \in Before, s[1] # "chunkSize", NEW c, NEW n, NEW l, NEW f, NEW w, NEW i,
           NEW acts, acts \subseteq {"mark", "chunk_size", "done", "version", "status", "reason"},
           NEW a \in {"chunkSize", "ext", "version", "status0", "status", "reason0", "reason", "final", "lastcr", "crlf", "header"}
    PROVE  LineGood(s, c, Rs!Go(<<a, w, i>>, acts), n, l, f, f)
<1>1. acts \cap Headers = Says(s, c, l) /\ "field" \notin acts
  BY BeforeSays DEF Headers
<1>2. a \in Before \cup {"final", "lastcr", "crlf", "header"} /\ NamesAt(a, NameWith(acts, n))
  BY DEF Before, Rs!ChunkStates, Rs!FirstStates, NamesAt
<1> QED BY <1>1, <1>2, BeforeMoves

(* The end of a part of a chunk header. *)
LEMMA LineChunkEnd ==
    ASSUME NEW s, s[1] \in Before, NEW c, NEW n, NEW l, NEW f,
           NEW acts, acts \cap Headers = Says(s, c, l), "field" \in acts => NameWith(acts, n) = Own,
           "field_start" \notin acts
    PROVE  LineGood(s, c, Rs!ChunkEnd(c, acts), n, l, f, f)
<1> DEFINE Good(d) == LineGood(s, c, d, n, l, f, f)
<1>1. (acts \cup {"done"}) \cap Headers = Says(s, c, l) /\ ("field" \in acts \cup {"done"} => NameWith(acts \cup {"done"}, n) = Own)
  BY DEF Headers, NameWith
<1>2. /\ \A m : NamesAt("final", m) /\ NamesAt("lastcr", m) /\ NamesAt("ext", m)
      /\ "final" \in Before \cup {"final", "lastcr", "crlf", "header"}
      /\ "lastcr" \in Before \cup {"final", "lastcr", "crlf", "header"}
      /\ "ext" \in Before \cup {"final", "lastcr", "crlf", "header"}
  BY DEF NamesAt, Before, Rs!ChunkStates
<1>3. Good(Rs!Go(<<"final", "-", 0>>, acts \cup {"done"}))
  BY <1>1, <1>2, BeforeMoves
<1>4. Good(Rs!Go(<<"lastcr", "-", 0>>, acts))
  BY <1>2, BeforeMoves
<1>5. Good(Rs!Go(<<"ext", "-", 0>>, acts))
  BY <1>2, BeforeMoves
<1>6. Good(Rs!Fail)
  BY LineFails
<1> HIDE DEF Good
<1>7. Good(Rs!ChunkEnd(c, acts))
  BY <1>3, <1>4, <1>5, <1>6, Zenon DEF Rs!ChunkEnd, Rs!S
<1> QED BY <1>7 DEF Good

(* Chunk headers. *)
LEMMA LineChunk ==
    ASSUME NEW s, s[1] \in Rs!ChunkStates, s = <<s[1], s[2], s[3]>>, NEW c, NEW n, NEW l, NEW f, NamesAt(s[1], n)
    PROVE  LineGood(s, c, Rs!ChunkDelta(s, c), n, l, f, f)
<1> DEFINE Good(d) == LineGood(s, c, d, n, l, f, f)
<1>0. s[1] \in Before
  BY DEF Before
<1>1. Good(Rs!Fail)
  BY LineFails
<1>a. ASSUME NEW acts, acts \cap Headers = {}, s[1] # "chunkSize" PROVE acts \cap Headers = Says(s, c, l)
  BY <1>0, <1>a, BeforeSays
<1>2. s[1] # "chunkSize" \/ c \in Rs!XDigit => Good(Rs!Go(s, {}))
  <2> HAVE s[1] # "chunkSize" \/ c \in Rs!XDigit
  <2>1. /\ {} \cap Headers = Says(s, c, l) /\ "field" \notin {}
        /\ s[1] \in Before \cup {"final", "lastcr", "crlf", "header"}
    BY <1>0, BeforeSays
  <2>2. NamesAt(s[1], NameWith({}, n))
    BY NameWithIs DEF NamesAt
  <2>3. Good(Rs!Go(<<s[1], s[2], s[3]>>, {}))
    BY <1>0, <2>1, <2>2, BeforeMoves
  <2> QED BY <2>3
<1>3. s[1] = "chunkSize" => Good(Rs!ChunkSizeStep(s, c))
  <2> HAVE s[1] = "chunkSize"
  <2> DEFINE acts == {"chunked", "content_len", "chunk_size"}
  <2>1. acts \cap Headers = {"chunked", "content_len"} /\ "field" \notin acts /\ "field_start" \notin acts
    BY DEF Headers
  <2>2. c \notin Rs!XDigit => acts \cap Headers = Says(s, c, l)
    BY <1>0, <2>1, BeforeSays
  <2> HIDE DEF acts
  <2>3. c \notin Rs!XDigit => Good(Rs!ChunkEnd(c, acts))
    BY <1>0, <2>1, <2>2, LineChunkEnd
  <2> QED BY <1>2, <2>3 DEF Rs!ChunkSizeStep, Rs!Stay, acts
<1>4. s[1] \in {"ext", "extName"} => Good(Rs!ExtNameStep(s, c))
  <2> HAVE s[1] \in {"ext", "extName"}
  <2>1. Good(Rs!Go(<<"extName", "-", 0>>, {"field_start"}))
    <3>1. {"field_start"} \cap Headers = {} /\ "field" \notin {"field_start"}
          /\ "extName" \in Before \cup {"final", "lastcr", "crlf", "header"}
      BY DEF Headers, Before, Rs!ChunkStates
    <3>2. NamesAt("extName", NameWith({"field_start"}, n))
      BY NameWithIs DEF NamesAt
    <3> QED BY <1>0, <1>a, <3>1, <3>2, BeforeMoves
  <2>2. s[1] = "extName" => Good(Rs!Go(<<"extEq", "-", 0>>, {"field_len", "mark"}))
    <3> HAVE s[1] = "extName"
    <3>1. {"field_len", "mark"} \cap Headers = {} /\ "field" \notin {"field_len", "mark"}
          /\ "extEq" \in Before \cup {"final", "lastcr", "crlf", "header"}
      BY DEF Headers, Before, Rs!ChunkStates
    <3>2. NamesAt("extEq", NameWith({"field_len", "mark"}, n))
      BY NameWithIs DEF NamesAt
    <3> QED BY <1>0, <1>a, <3>1, <3>2, BeforeMoves
  <2>3. s[1] = "extName" => Good(Rs!ChunkEnd(c, {"field_len", "mark", "field"}))
    <3> HAVE s[1] = "extName"
    <3>1. {"field_len", "mark", "field"} \cap Headers = {} /\ "field_start" \notin {"field_len", "mark", "field"}
      BY DEF Headers
    <3>2. NameWith({"field_len", "mark", "field"}, n) = Own
      BY NameWithIs DEF NamesAt
    <3> QED BY <1>0, <1>a, <3>1, <3>2, LineChunkEnd
  <2> HIDE DEF Good
  <2> QED BY <1>1, <1>2, <2>1, <2>2, <2>3, Zenon DEF Rs!ExtNameStep, Rs!At, Rs!S, Rs!Stay
<1>5. s[1] \in {"extEq", "extValue"} => Good(Rs!ExtValueStep(s, c))
  <2> HAVE s[1] \in {"extEq", "extValue"}
  <2>0. n = Own
    BY DEF NamesAt
  <2>1. Good(Rs!Go(<<"extValue", "-", 0>>, {"mark"}))
    <3>1. {"mark"} \cap Headers = {} /\ "field" \notin {"mark"}
          /\ "extValue" \in Before \cup {"final", "lastcr", "crlf", "header"}
      BY DEF Headers, Before, Rs!ChunkStates
    <3>2. NamesAt("extValue", NameWith({"mark"}, n))
      BY <2>0, NameWithIs DEF NamesAt
    <3> QED BY <1>0, <1>a, <3>1, <3>2, BeforeMoves
  <2>2. Good(Rs!ChunkEnd(c, {"field"}))
    <3>1. {"field"} \cap Headers = {} /\ "field_start" \notin {"field"}
      BY DEF Headers
    <3>2. NameWith({"field"}, n) = Own
      BY <2>0, NameWithIs
    <3> QED BY <1>0, <1>a, <3>1, <3>2, LineChunkEnd
  <2> HIDE DEF Good
  <2> QED BY <1>1, <1>2, <2>1, <2>2, Zenon DEF Rs!ExtValueStep, Rs!At, Rs!S, Rs!Stay
<1> HIDE DEF Good
<1>6. Good(Rs!ChunkDelta(s, c))
  BY <1>3, <1>4, <1>5, Zenon DEF Rs!ChunkDelta, Rs!ChunkStates, Rs!At
<1> QED BY <1>6 DEF Good

(* First lines. *)
LEMMA LineFirst ==
    ASSUME NEW s, s[1] \in {"start"} \cup Rs!FirstStates, s = <<s[1], s[2], s[3]>>, NEW c, NEW n, NEW l, NEW f
    PROVE  /\ s[1] = "start" => LineGood(s, c, Rs!StartStep(c), n, l, f, f)
           /\ s[1] \in Rs!FirstStates => LineGood(s, c, Rs!FirstDelta(s, c), n, l, f, f)
<1> DEFINE Good(d) == LineGood(s, c, d, n, l, f, f)
<1>0. s[1] \in Before /\ s[1] # "chunkSize"
  BY DEF Before, Rs!FirstStates
<1>1. Good(Rs!Fail)
  BY LineFails
<1>2. Good(Rs!StartStep(c))
  <2>1. Good(Rs!Go(<<"chunkSize", "-", 0>>, {"mark"})) /\ Good(Rs!Go(<<"version", "-", 0>>, {"mark"}))
    BY <1>0, BeforePlain
  <2> HIDE DEF Good
  <2> QED BY <1>1, <2>1, Zenon DEF Rs!StartStep, Rs!S
<1>3. s[1] = "version" => Good(Rs!VersionStep(s, c))
  <2> HAVE s[1] = "version"
  <2>1. Good(Rs!Go(<<"status0", "-", 0>>, {"version"}))
    BY <1>0, BeforePlain
  <2>2. \A i : Good(Rs!Go(<<"version", s[2], i>>, {}))
    BY <1>0, BeforePlain
  <2>3. \A i : Rs!Reach(s, i) = <<"version", s[2], i>>
    BY DEF Rs!Reach
  <2>4. \A i : Good(Rs!Go(Rs!Reach(s, i), {}))
    BY <2>2, <2>3
  <2> HIDE DEF Good
  <2> QED BY <1>1, <2>1, <2>4, Zenon DEF Rs!VersionStep, Rs!S, Rs!Stay
<1>4. s[1] \in {"status0", "status"} => Good(Rs!StatusStep(s, c))
  <2> DEFINE acts == IF Rs!At(s) = "status0" THEN {"mark"} ELSE {}
  <2>1. Good(Rs!Go(<<"reason0", "-", 0>>, {"status"})) /\ Good(Rs!Go(<<"status", "-", 0>>, acts))
    BY <1>0, BeforePlain
  <2> HIDE DEF Good
  <2> QED BY <1>1, <2>1, Zenon DEF Rs!StatusStep, Rs!S
<1>5. s[1] \in {"reason0", "reason"} => Good(Rs!ReasonStep(s, c))
  <2> HAVE s[1] \in {"reason0", "reason"}
  <2>1. Good(Rs!Go(<<"reason", "-", 0>>, {"mark"})) /\ Good(Rs!Go(<<"crlf", "-", 0>>, {"reason"}))
        /\ Good(Rs!Go(<<"header", "-", 0>>, {"reason"}))
    BY <1>0, BeforePlain
  <2>2. s[1] = "reason" => Good(Rs!Go(<<s[1], s[2], s[3]>>, {}))
    BY <1>0, BeforePlain
  <2>3. s[1] = "reason" => Good(Rs!Go(s, {}))
    BY <2>2
  <2> HIDE DEF Good
  <2> QED BY <1>1, <2>1, <2>3, Zenon DEF Rs!ReasonStep, Rs!S, Rs!Stay, Rs!At
<1> HIDE DEF Good
<1>6. s[1] \in Rs!FirstStates => Good(Rs!FirstDelta(s, c))
  BY <1>3, <1>4, <1>5, Zenon DEF Rs!FirstDelta, Rs!FirstStates, Rs!At
<1> QED BY <1>2, <1>6 DEF Good

----------------------------------------------------------------------------
(* The header lines *)

(* A character within a line ... *)
LEMMA WithinLine ==
    ASSUME NEW s, InHeaders(s), NEW c, c \notin {"CR", "LF"}, NEW n, NEW l, NEW f, NEW g, NEW acts, NEW w, NEW i,
           NEW a \in {"name", "nameC", "nameT", "named", "lws", "value", "any"}, g = f \cup (acts \cap Headers),
           NEW l2, l2 = LineWith(l, c), LineAt(a, w, i, l2), NamesAt(a, NameWith(acts, n)), "field" \notin acts
    PROVE  LineGood(s, c, Rs!Go(<<a, w, i>>, acts), n, l, f, g)
<1>1. l2 = LineAfter(s, c, l) /\ g = ToldAfter(s, c, l, g)
  BY DEF LineAfter, ToldAfter, Says, InHeaders, Rs!ChunkStates
<1>2. a \notin AfterEmpty /\ FlagsAt(a, l2, g, g)
  BY DEF AfterEmpty, FlagsAt
<1> QED BY <1>1, <1>2, LineMove

(* ... the carriage return at its end ... *)
LEMMA LineReturn ==
    ASSUME NEW s, InHeaders(s), NEW n, NEW l, NEW f, NEW g, NEW acts, NEW w, NEW i,
           NEW a \in {"crlf", "crlfClose", "crlfTe", "lastcr"}, NEW f2, f2 = f \cup (acts \cap Headers),
           LineAt(a, w, i, l), FlagsAt(a, l, f2, g), "field" \in acts => NameWith(acts, n) = Own
    PROVE  LineGood(s, "CR", Rs!Go(<<a, w, i>>, acts), n, l, f, g)
<1>1. l = LineAfter(s, "CR", l) /\ g = ToldAfter(s, "CR", l, g)
  BY DEF LineAfter, ToldAfter, Says, InHeaders, Rs!ChunkStates
<1>2. a \notin AfterEmpty /\ NamesAt(a, NameWith(acts, n))
  BY DEF AfterEmpty, NamesAt
<1> QED BY <1>1, <1>2, LineMove

(* ... and the line feed. *)
LEMMA LineFeed ==
    ASSUME NEW s, InHeaders(s), NEW n, NEW l, NEW f, NEW g, NEW acts, NEW w, NEW i,
           NEW a \in {"header", "closeLine", "final"}, NEW f2, f2 = f \cup (acts \cap Headers),
           FlagsAt(a, <<>>, f2, g \cup Asks(l)), "field" \in acts => NameWith(acts, n) = Own
    PROVE  LineGood(s, "LF", Rs!Go(<<a, w, i>>, acts), n, l, f, g)
<1>1. <<>> = LineAfter(s, "LF", l) /\ g \cup Asks(l) = ToldAfter(s, "LF", l, g)
  BY DEF LineAfter, ToldAfter, Says, InHeaders, Rs!ChunkStates
<1>2. a \notin AfterEmpty /\ NamesAt(a, NameWith(acts, n)) /\ LineAt(a, w, i, <<>>)
  BY DEF AfterEmpty, NamesAt, LineAt
<1> QED BY <1>1, <1>2, LineMove

(* The start of a line writes what the line before left to do. *)
LEMMA LineBegins ==
    ASSUME NEW s, InHeaders(s), NEW c, NEW n, NEW f, NEW g, NEW acts \in {{}, {"close"}}, g = f \cup acts
    PROVE  LineGood(s, c, Rs!LineStart(c, acts), n, <<>>, f, g)
<1> DEFINE Good(d) == LineGood(s, c, d, n, <<>>, f, g)
<1>0. /\ g = f \cup (acts \cap Headers) /\ g = f \cup ((acts \cup {"field_start"}) \cap Headers)
      /\ g = f \cup ((acts \cup {"done"}) \cap Headers) /\ g \cup Asks(<<>>) = g
      /\ "field" \notin acts \cup {"field_start"} /\ "field" \notin acts \cup {"done"} /\ "field" \notin acts
  BY LinesAsk DEF Headers
<1>1. c = "LF" => Good(Rs!Go(<<"final", "-", 0>>, acts \cup {"done"}))
  <2>1. FlagsAt("final", <<>>, g, g \cup Asks(<<>>))
    BY <1>0 DEF FlagsAt
  <2>2. LineGood(s, "LF", Rs!Go(<<"final", "-", 0>>, acts \cup {"done"}), n, <<>>, f, g)
    BY <1>0, <2>1, LineFeed
  <2> QED BY <2>2
<1>2. c = "CR" => Good(Rs!Go(<<"lastcr", "-", 0>>, acts))
  <2>1. FlagsAt("lastcr", <<>>, g, g) /\ LineAt("lastcr", "-", 0, <<>>)
    BY DEF FlagsAt, LineAt
  <2>2. LineGood(s, "CR", Rs!Go(<<"lastcr", "-", 0>>, acts), n, <<>>, f, g)
    BY <1>0, <2>1, LineReturn
  <2> QED BY <2>2
<1>3. \A a \in {"name", "nameC", "nameT"} : NamesAt(a, NameWith(acts \cup {"field_start"}, n))
  BY NameWithIs DEF NamesAt
<1>4. c = "c" => Good(Rs!Go(<<"nameC", "-", 0>>, acts \cup {"field_start"}))
  <2> HAVE c = "c"
  <2>1. LineWith(<<>>, c) = <<"c">>
    BY NameLines
  <2>2. LineAt("nameC", "-", 0, <<"c">>)
    BY DEF LineAt
  <2> QED BY <1>0, <1>3, <2>1, <2>2, WithinLine
<1>5. c = "t" => Good(Rs!Go(<<"nameT", "-", 0>>, acts \cup {"field_start"}))
  <2> HAVE c = "t"
  <2>1. LineWith(<<>>, c) = <<"t">>
    BY NameLines
  <2>2. LineAt("nameT", "-", 0, <<"t">>)
    BY DEF LineAt
  <2> QED BY <1>0, <1>3, <2>1, <2>2, WithinLine
<1>6. c \in Rs!Token \ {"c", "t"} => Good(Rs!Go(<<"name", "-", 0>>, acts \cup {"field_start"}))
  <2> HAVE c \in Rs!Token \ {"c", "t"}
  <2>1. LineWith(<<>>, c) = Other /\ c \notin {"CR", "LF"}
    BY NameLines DEF Rs!Token, Rs!XDigit, Rs!Digit
  <2>2. LineAt("name", "-", 0, Other)
    BY DEF LineAt
  <2> QED BY <1>0, <1>3, <2>1, <2>2, WithinLine
<1>7. Good(Rs!Fail)
  BY LineFails
<1>8. Rs!ConnectionName[1] = "c" /\ Rs!TransferName[1] = "t"
  BY DEF Rs!ConnectionName, Rs!TransferName
<1> HIDE DEF Good
<1>9. Good(Rs!LineStart(c, acts))
  BY <1>1, <1>2, <1>4, <1>5, <1>6, <1>7, <1>8, Zenon DEF Rs!LineStart, Rs!S
<1> QED BY <1>9 DEF Good

(* The header and closeLine states. *)
LEMMA LineHeader ==
    ASSUME NEW s, NEW c, NEW n, NEW l, NEW f, NEW g, LineFits(s, n, l, f, g), s[1] \in {"header", "closeLine"}
    PROVE  LineGood(s, c, Rs!HeaderStep(s, c), n, l, f, g)
<1>1. InHeaders(s) /\ l = <<>>
  BY DEF InHeaders, Rs!ChunkStates, Rs!FirstStates, LineFits, LineAt
<1>2. PICK acts \in {{}, {"close"}} : acts = IF Rs!At(s) = "closeLine" THEN {"close"} ELSE {}
  OBVIOUS
<1>3. g = f \cup acts
  BY <1>2 DEF LineFits, FlagsAt, Rs!At
<1>4. LineGood(s, c, Rs!LineStart(c, acts), n, <<>>, f, g)
  BY <1>1, <1>3, LineBegins
<1> QED BY <1>1, <1>2, <1>4 DEF Rs!HeaderStep

(* A letter of a name. *)
LEMMA LineLetter ==
    ASSUME NEW s, NEW c, NEW n, NEW l, NEW f, NEW g, LineFits(s, n, l, f, g), s[1] \in Rs!NameStates,
           s[1] = "named" => s[2] \in Words, c \in Rs!Token
    PROVE  LineGood(s, c, Rs!Go(Rs!Letter(s, c), {}), n, l, f, g)
<1> DEFINE Good(t) == LineGood(s, c, Rs!Go(t, {}), n, l, f, g)
<1>1. InHeaders(s) /\ s[1] \in {"name", "nameC", "nameT", "named"} /\ n.start = 1 /\ g = f \cup ({} \cap Headers)
  BY DEF InHeaders, Rs!NameStates, Rs!ChunkStates, Rs!FirstStates, LineFits, FlagsAt, NamesAt, AfterEmpty
<1>2. c \notin {"CR", "LF", ":"} /\ "field" \notin {}
  BY DEF Rs!Token, Rs!XDigit, Rs!Digit
<1>3. \A a \in {"name", "named"} : NamesAt(a, NameWith({}, n))
  BY <1>1, NameWithIs DEF NamesAt
<1>4. ASSUME NEW w \in Words, LineWith(l, c) = Named[w] PROVE Good(<<"named", w, 0>>)
  <2>1. LineAt("named", w, 0, Named[w])
    BY DEF LineAt
  <2> QED BY <1>1, <1>2, <1>3, <1>4, <2>1, WithinLine
<1>5. LineWith(l, c) = Other => Good(<<"name", "-", 0>>)
  <2>1. LineAt("name", "-", 0, Other)
    BY DEF LineAt
  <2> QED BY <1>1, <1>2, <1>3, <2>1, WithinLine
<1>6. s[1] = "nameC" => LineWith(l, c) = IF c \in {"n", "t"} THEN <<"c", c>> ELSE Other
  BY NameLines DEF LineFits, LineAt
<1>7. s[1] = "nameT" => LineWith(l, c) = IF c = "r" THEN <<"t", c>> ELSE Other
  BY NameLines DEF LineFits, LineAt
<1>8. s[1] = "name" => LineWith(l, c) = Other
  BY NameLines DEF LineFits, LineAt
<1>9. s[1] = "named" => LineWith(l, c) = Other
  <2> HAVE s[1] = "named"
  <2>1. l = Named[s[2]]
    BY DEF LineFits, LineAt
  <2>2. l \in {<<"c", "n">>, <<"t", "r">>, <<"c", "t">>}
    BY <2>1 DEF Words, Named
  <2> QED BY <1>2, <2>2, NameLines
<1>10. /\ s[1] = "nameC" /\ c = "n" => Good(<<"named", "conn", 0>>)
       /\ s[1] = "nameC" /\ c = "t" => Good(<<"named", "cl", 0>>)
       /\ s[1] = "nameT" /\ c = "r" => Good(<<"named", "te", 0>>)
  BY <1>4, <1>6, <1>7 DEF Words, Named
<1>11. ~(s[1] = "nameC" /\ c = "n") /\ ~(s[1] = "nameC" /\ c = "t") /\ ~(s[1] = "nameT" /\ c = "r")
       => Good(<<"name", "-", 0>>)
  BY <1>1, <1>5, <1>6, <1>7, <1>8, <1>9
<1>12. Rs!ConnectionName[2] = "n" /\ Rs!LengthName[2] = "t" /\ Rs!TransferName[2] = "r"
  BY DEF Rs!ConnectionName, Rs!LengthName, Rs!TransferName
<1>13. s[1] \notin {"nameCl", "nameCk"}
  BY <1>1
<1> HIDE DEF Good
<1>14. Good(Rs!Letter(s, c))
  BY <1>10, <1>11, <1>12, <1>13, Zenon DEF Rs!Letter, Rs!At, Rs!K, Rs!S
<1> QED BY <1>14 DEF Good

(* A name and its colon. *)
LEMMA LineName ==
    ASSUME NEW s, NEW c, NEW n, NEW l, NEW f, NEW g, LineFits(s, n, l, f, g), s[1] \in Rs!NameStates,
           s[1] = "named" => s[2] \in Words
    PROVE  LineGood(s, c, Rs!NameStep(s, c), n, l, f, g)
<1> DEFINE Good(d) == LineGood(s, c, d, n, l, f, g)
<1>1. InHeaders(s) /\ s[1] \in {"name", "nameC", "nameT", "named"} /\ n.start = 1 /\ g = f \cup ({"field_len"} \cap Headers)
  BY DEF InHeaders, Rs!NameStates, Rs!ChunkStates, Rs!FirstStates, LineFits, FlagsAt, NamesAt, AfterEmpty, Headers
<1>2. c \in Rs!Token => Good(Rs!Go(Rs!Letter(s, c), {}))
  BY LineLetter
<1>3. NamesAt("lws", NameWith({"field_len"}, n)) /\ "field" \notin {"field_len"}
  BY <1>1, NameWithIs DEF NamesAt
<1>4. c = ":" /\ s[1] = "named" => Good(Rs!Go(<<"lws", s[2], 0>>, {"field_len"}))
  <2> HAVE c = ":" /\ s[1] = "named"
  <2>1. PICK w : w = s[2] /\ w \in Words
    OBVIOUS
  <2>2. l = Named[w]
    BY <2>1 DEF LineFits, LineAt
  <2>3. (w = "conn" /\ l = <<"c", "n">>) \/ (w = "te" /\ l = <<"t", "r">>) \/ (w = "cl" /\ l = <<"c", "t">>)
    BY <2>1, <2>2 DEF Named, Words
  <2>4. LineWith(l, c) \in Opened[w]
    <3>1. /\ LineWith(<<"c", "n">>, c) = <<"c", "n", ":">> /\ LineWith(<<"t", "r">>, c) = <<"t", "r", ":">>
          /\ LineWith(<<"c", "t">>, c) = <<"c", "t", ":">>
      BY NameLines
    <3>2. /\ <<"c", "n", ":">> \in Opened["conn"] /\ <<"t", "r", ":">> \in Opened["te"]
          /\ <<"c", "t", ":">> \in Opened["cl"]
      BY DEF Opened
    <3> QED BY <2>3, <3>1, <3>2
  <2>5. LineAt("lws", w, 0, LineWith(l, c))
    BY <2>1, <2>4 DEF LineAt, Words
  <2>6. Good(Rs!Go(<<"lws", w, 0>>, {"field_len"}))
    BY <1>1, <1>3, <2>5, WithinLine
  <2> QED BY <2>1, <2>6
<1>5. c = ":" /\ s[1] # "named" => Good(Rs!Go(<<"lws", "-", 0>>, {"field_len"}))
  <2> HAVE c = ":" /\ s[1] # "named"
  <2>1. l \in {Other, <<"c">>, <<"t">>}
    BY <1>1 DEF LineFits, LineAt
  <2>2. LineWith(l, c) = Other
    BY <2>1, NameLines
  <2>3. LineAt("lws", "-", 0, Other)
    BY DEF LineAt
  <2> QED BY <1>1, <1>3, <2>2, <2>3, WithinLine
<1>6. Good(Rs!Fail)
  BY LineFails
<1> HIDE DEF Good
<1>7. Good(Rs!NameStep(s, c))
  BY <1>2, <1>4, <1>5, <1>6, Zenon DEF Rs!NameStep, Rs!At, Rs!K, Rs!S, Rs!Stay
<1> QED BY <1>7 DEF Good

(* The end of a line that asks for nothing. *)
LEMMA PlainEnd ==
    ASSUME NEW s, InHeaders(s), NEW n, n = Own, NEW l, Asks(l) = {}, NEW f, NEW acts \in {{"field"}, {"mark", "field"}}
    PROVE  /\ LineGood(s, "LF", Rs!Go(<<"header", "-", 0>>, acts), n, l, f, f)
           /\ LineGood(s, "CR", Rs!Go(<<"crlf", "-", 0>>, acts), n, l, f, f)
<1>1. f = f \cup (acts \cap Headers) /\ "field" \in acts /\ NameWith(acts, n) = Own
  BY NameWithIs DEF Headers
<1>2. FlagsAt("header", <<>>, f, f \cup Asks(l)) /\ FlagsAt("crlf", l, f, f) /\ LineAt("crlf", "-", 0, l)
  BY DEF FlagsAt, LineAt
<1>3. LineGood(s, "LF", Rs!Go(<<"header", "-", 0>>, acts), n, l, f, f)
  BY <1>1, <1>2, LineFeed
<1>4. LineGood(s, "CR", Rs!Go(<<"crlf", "-", 0>>, acts), n, l, f, f)
  BY <1>1, <1>2, LineReturn
<1> QED BY <1>3, <1>4

(* A value that is not recognised. *)
LEMMA PlainValue ==
    ASSUME NEW s, InHeaders(s), NEW c, c \notin {"CR", "LF"}, NEW n, n = Own, NEW l, LineWith(l, c) = Other, NEW f,
           NEW acts \in {{}, {"mark"}}, NEW w, NEW i
    PROVE  /\ LineGood(s, c, Rs!Go(<<"value", w, i>>, acts), n, l, f, f)
           /\ LineGood(s, c, Rs!Go(<<"lws", "-", 0>>, acts), n, l, f, f)
<1>1. f = f \cup (acts \cap Headers) /\ "field" \notin acts /\ NameWith(acts, n) = Own
  BY NameWithIs DEF Headers
<1>2. /\ LineAt("value", w, i, Other) /\ NamesAt("value", NameWith(acts, n))
      /\ LineAt("lws", "-", 0, Other) /\ NamesAt("lws", NameWith(acts, n))
  BY <1>1 DEF LineAt, NamesAt
<1>3. LineGood(s, c, Rs!Go(<<"value", w, i>>, acts), n, l, f, f)
  BY <1>1, <1>2, WithinLine
<1>4. LineGood(s, c, Rs!Go(<<"lws", "-", 0>>, acts), n, l, f, f)
  BY <1>1, <1>2, WithinLine
<1> QED BY <1>3, <1>4

(* The blanks before an ordinary value ... *)
LEMMA LineLws ==
    ASSUME NEW s, NEW c, NEW n, NEW f, s = <<"lws", "-", 0>>, n = Own
    PROVE  LineGood(s, c, Rs!LwsStep(s, c), n, Other, f, f)
<1> DEFINE Good(d) == LineGood(s, c, d, n, Other, f, f)
<1>1. InHeaders(s) /\ Asks(Other) = {} /\ LineWith(Other, c) = Other
  BY LinesAsk, NameLines DEF InHeaders, Rs!ChunkStates, Rs!FirstStates
<1>2. c \in Rs!Space => Good(Rs!Go(s, {"mark"}))
  <2> HAVE c \in Rs!Space
  <2>1. c \notin {"CR", "LF"}
    BY DEF Rs!Space
  <2>2. Good(Rs!Go(<<"lws", "-", 0>>, {"mark"}))
    BY <1>1, <2>1, PlainValue
  <2> QED BY <2>2
<1>3. LineGood(s, "LF", Rs!Go(<<"header", "-", 0>>, {"mark", "field"}), n, Other, f, f)
      /\ LineGood(s, "CR", Rs!Go(<<"crlf", "-", 0>>, {"mark", "field"}), n, Other, f, f)
  BY <1>1, PlainEnd
<1>4. /\ c = "LF" => Good(Rs!Go(<<"header", "-", 0>>, {"mark", "field"}))
      /\ c = "CR" => Good(Rs!Go(<<"crlf", "-", 0>>, {"mark", "field"}))
  BY <1>3
<1>5. c # "LF" /\ c # "CR" => Good(Rs!Go(<<"value", "-", 0>>, {"mark"}))
  BY <1>1, PlainValue
<1> HIDE DEF Good
<1>6. Good(Rs!LwsStep(s, c))
  BY <1>2, <1>4, <1>5, Zenon DEF Rs!LwsStep, Rs!S
<1> QED BY <1>6 DEF Good

(* ... and such a value. *)
LEMMA LineValue ==
    ASSUME NEW s, InHeaders(s), NEW c, NEW n, NEW f, NEW l, Asks(l) = {}, c \in {"CR", "LF"} \/ LineWith(l, c) = Other,
           n = Own, NEW u, NEW w, NEW i, u = <<"value", w, i>>
    PROVE  LineGood(s, c, Rs!ValueStep(u, c), n, l, f, f)
<1> DEFINE Good(d) == LineGood(s, c, d, n, l, f, f)
<1>1. LineGood(s, "LF", Rs!Go(<<"header", "-", 0>>, {"field"}), n, l, f, f)
      /\ LineGood(s, "CR", Rs!Go(<<"crlf", "-", 0>>, {"field"}), n, l, f, f)
  BY PlainEnd
<1>2. /\ c = "LF" => Good(Rs!Go(<<"header", "-", 0>>, {"field"}))
      /\ c = "CR" => Good(Rs!Go(<<"crlf", "-", 0>>, {"field"}))
  BY <1>1
<1>3. c # "LF" /\ c # "CR" => Good(Rs!Go(<<"value", w, i>>, {}))
  BY PlainValue
<1>4. c # "LF" /\ c # "CR" => Good(Rs!Go(u, {}))
  BY <1>3
<1> HIDE DEF Good
<1>5. Good(Rs!ValueStep(u, c))
  BY <1>2, <1>4, Zenon DEF Rs!ValueStep, Rs!S, Rs!Stay
<1> QED BY <1>5 DEF Good

(* The blanks before the value of a recognised header: its line must not end there. *)
LEMMA LineWordLws ==
    ASSUME NEW s, NEW c, NEW n, NEW l, NEW f, NEW w \in Words, s = <<"lws", w, 0>>, n = Own, l \in Opened[w],
           c \in {"CR", "LF"} => ~IsEmpty(l)
    PROVE  LineGood(s, c, Rs!WordLwsStep(s, c), n, l, f, f)
<1> DEFINE Good(d) == LineGood(s, c, d, n, l, f, f)
<1>0. s[2] = w /\ InHeaders(s) /\ w # "-"
  BY DEF InHeaders, Rs!ChunkStates, Rs!FirstStates, Words
<1>1. c \notin {"CR", "LF"}
  BY LinesAsk
<1>2. f = f \cup ({"mark"} \cap Headers) /\ "field" \notin {"mark"} /\ NameWith({"mark"}, n) = Own
  BY NameWithIs DEF Headers
<1>3. NamesAt("lws", NameWith({"mark"}, n)) /\ NamesAt("any", NameWith({"mark"}, n))
  BY <1>2 DEF NamesAt
<1>4. c \in Rs!Space => Good(Rs!Go(s, {"mark"}))
  <2> HAVE c \in Rs!Space
  <2>1. LineAt("lws", w, 0, LineWith(l, c))
    BY <1>0, OpenLines DEF LineAt
  <2>2. Good(Rs!Go(<<"lws", w, 0>>, {"mark"}))
    BY <1>0, <1>1, <1>2, <1>3, <2>1, WithinLine
  <2> QED BY <2>2
<1>5. c \notin Rs!Space /\ Rs!First(w, c) => Good(Rs!Go(Rs!Begun("any", w), {"mark"}))
  <2> HAVE c \notin Rs!Space /\ Rs!First(w, c)
  <2>1. CASE w = "cl"
    <3>1. LineAt("any", "cl", 2, LineWith(l, c))
      BY <2>1, OpenLines DEF LineAt
    <3>2. Good(Rs!Go(<<"any", "cl", 2>>, {"mark"}))
      BY <1>0, <1>1, <1>2, <1>3, <3>1, WithinLine
    <3> QED BY <2>1, <3>2 DEF Rs!Begun
  <2>2. CASE w # "cl"
    <3>1. LineAt("any", w, 1, LineWith(l, c))
      BY <2>2, OpenLines DEF LineAt
    <3>2. Good(Rs!Go(<<"any", w, 1>>, {"mark"}))
      BY <1>0, <1>1, <1>2, <1>3, <3>1, WithinLine
    <3> QED BY <2>2, <3>2 DEF Rs!Begun
  <2> QED BY <2>1, <2>2
<1>6. c \notin Rs!Space /\ ~Rs!First(w, c) => Good(Rs!Go(<<"value", "-", 0>>, {"mark"}))
  BY <1>0, <1>1, OpenLines, PlainValue
<1>7. c # "LF" /\ c # "CR"
  BY <1>1
<1>8. Rs!First(w, c) => c \notin Rs!Space
  BY DEF Rs!Space, Rs!First, Rs!Digit, Rs!ValueOf, Words
<1> HIDE DEF Good
<1>9. s[2] = w
  BY <1>0
<1>10. Good(Rs!WordLwsStep(s, c))
  BY <1>4, <1>5, <1>6, <1>7, <1>8, <1>9, Zenon DEF Rs!WordLwsStep, Rs!S
<1> QED BY <1>10 DEF Good

(* The end of a recognised value. *)
LEMMA LineWordEnd ==
    ASSUME NEW s, InHeaders(s), NEW c \in {"CR", "LF"}, NEW n, n = Own, NEW l, NEW f, NEW w \in Words, l \in Whole(w)
    PROVE  LineGood(s, c, Rs!WordEnd(w, c, {"field"}), n, l, f, f)
<1> DEFINE Good(d) == LineGood(s, c, d, n, l, f, f)
<1>1. Asks(l) = {Asked[w]}
  BY LinesAsk
<1>2. /\ f = f \cup ({"field"} \cap Headers)
      /\ f \cup {"chunked"} = f \cup (({"field"} \cup {"chunked"}) \cap Headers)
      /\ f \cup {"content_len"} = f \cup (({"field"} \cup {"content_len"}) \cap Headers)
  BY DEF Headers
<1>3. \A acts : "field_start" \notin acts => NameWith(acts, n) = Own
  BY NameWithIs
<1>4. w = "conn" => /\ c = "LF" => Good(Rs!Go(<<"closeLine", "-", 0>>, {"field"}))
                    /\ c = "CR" => Good(Rs!Go(<<"crlfClose", "-", 0>>, {"field"}))
  <2> HAVE w = "conn"
  <2>1. FlagsAt("closeLine", <<>>, f, f \cup Asks(l)) /\ FlagsAt("crlfClose", l, f, f) /\ LineAt("crlfClose", "-", 0, l)
    BY <1>1 DEF FlagsAt, LineAt, Asked
  <2>2. LineGood(s, "LF", Rs!Go(<<"closeLine", "-", 0>>, {"field"}), n, l, f, f)
    BY <1>2, <1>3, <2>1, LineFeed
  <2>3. LineGood(s, "CR", Rs!Go(<<"crlfClose", "-", 0>>, {"field"}), n, l, f, f)
    BY <1>2, <1>3, <2>1, LineReturn
  <2> QED BY <2>2, <2>3
<1>5. w = "te" => /\ c = "LF" => Good(Rs!Go(<<"header", "-", 0>>, {"field"} \cup {"chunked"}))
                  /\ c = "CR" => Good(Rs!Go(<<"crlfTe", "-", 0>>, {"field"}))
  <2> HAVE w = "te"
  <2>1. FlagsAt("header", <<>>, f \cup {"chunked"}, f \cup Asks(l)) /\ FlagsAt("crlfTe", l, f, f) /\ LineAt("crlfTe", "-", 0, l)
    BY <1>1 DEF FlagsAt, LineAt, Asked
  <2>2. LineGood(s, "LF", Rs!Go(<<"header", "-", 0>>, {"field"} \cup {"chunked"}), n, l, f, f)
    BY <1>2, <1>3, <2>1, LineFeed
  <2>3. LineGood(s, "CR", Rs!Go(<<"crlfTe", "-", 0>>, {"field"}), n, l, f, f)
    BY <1>2, <1>3, <2>1, LineReturn
  <2> QED BY <2>2, <2>3
<1>6. w = "cl" => /\ c = "LF" => Good(Rs!Go(<<"header", "-", 0>>, {"field"} \cup {"content_len"}))
                  /\ c = "CR" => Good(Rs!Go(<<"crlf", "-", 0>>, {"field"} \cup {"content_len"}))
  <2> HAVE w = "cl"
  <2>1. /\ FlagsAt("header", <<>>, f \cup {"content_len"}, f \cup Asks(l)) /\ FlagsAt("crlf", l, f \cup {"content_len"}, f)
        /\ LineAt("crlf", "-", 0, l)
    BY <1>1 DEF FlagsAt, LineAt, Asked
  <2>2. LineGood(s, "LF", Rs!Go(<<"header", "-", 0>>, {"field"} \cup {"content_len"}), n, l, f, f)
    BY <1>2, <1>3, <2>1, LineFeed
  <2>3. LineGood(s, "CR", Rs!Go(<<"crlf", "-", 0>>, {"field"} \cup {"content_len"}), n, l, f, f)
    BY <1>2, <1>3, <2>1, LineReturn
  <2> QED BY <2>2, <2>3
<1>7. (c = "CR" \/ c = "LF") /\ (w = "conn" \/ w = "te" \/ w = "cl")
  BY DEF Words
<1> HIDE DEF Good
<1>8. Good(Rs!WordEnd(w, c, {"field"}))
  BY <1>4, <1>5, <1>6, <1>7, Zenon DEF Rs!WordEnd, Rs!S
<1> QED BY <1>8 DEF Good

(* The value of a recognised header, on its line. *)
LEMMA LineAny ==
    ASSUME NEW s, NEW c, NEW n, NEW l, NEW f, NEW w \in Words, NEW i \in {1, 2}, s = <<"any", w, i>>, n = Own,
           w = "cl" => i = 2, i = 1 => l \in Half[w], i = 2 => l \in Whole(w)
    PROVE  LineGood(s, c, Rs!AnyValueStep(s, c), n, l, f, f)
<1> DEFINE Good(d) == LineGood(s, c, d, n, l, f, f)
<1>0. s[2] = w /\ s[3] = i /\ InHeaders(s)
  BY DEF InHeaders, Rs!ChunkStates, Rs!FirstStates
<1>1. f = f \cup ({} \cap Headers) /\ "field" \notin {} /\ NamesAt("any", NameWith({}, n))
  BY NameWithIs DEF NamesAt
<1>2. ASSUME i = 2, c \in {"CR", "LF"} PROVE Good(Rs!WordEnd(w, c, {"field"}))
  BY <1>0, <1>2, LineWordEnd
<1>3. ASSUME i = 2, w = "cl", c \in Rs!Digit PROVE Good(Rs!Go(s, {}))
  <2>1. LineWith(l, c) = l /\ c \notin {"CR", "LF"}
    BY <1>3, WholeLines DEF Rs!Digit
  <2>2. LineAt("any", "cl", 2, l)
    BY <1>3 DEF LineAt
  <2>3. Good(Rs!Go(<<"any", "cl", 2>>, {}))
    BY <1>0, <1>1, <2>1, <2>2, WithinLine
  <2> QED BY <1>3, <2>3
<1>4. ASSUME i # 2, c = Rs!ValueOf[w][2] PROVE Good(Rs!Go(Rs!Reach(s, 2), {}))
  <2>1. w \in {"conn", "te"} /\ i = 1
    BY <1>4 DEF Words
  <2>2. c \notin {"CR", "LF"}
    BY <1>4, <2>1 DEF Rs!ValueOf
  <2>3. LineAt("any", w, 2, LineWith(l, c))
    BY <1>4, <2>1, HalfLines DEF LineAt
  <2>4. Good(Rs!Go(<<"any", w, 2>>, {}))
    BY <1>0, <1>1, <2>2, <2>3, WithinLine
  <2>5. Rs!Reach(s, 2) = <<"any", w, 2>>
    BY DEF Rs!Reach
  <2> QED BY <2>4, <2>5
<1>5. ASSUME ~(i = 2 /\ c \in {"CR", "LF"}), ~(i = 2 /\ w = "cl" /\ c \in Rs!Digit), ~(i # 2 /\ c = Rs!ValueOf[w][2])
      PROVE  Good(Rs!ValueStep(<<"value", "-", 0>>, c))
  <2>1. CASE i = 2
    <3>1. LineWith(l, c) = Other /\ c \notin {"CR", "LF"}
      BY <1>5, <2>1, WholeLines
    <3>2. LineGood(s, c, Rs!Go(<<"value", "-", 0>>, {}), n, l, f, f)
      BY <1>0, <3>1, PlainValue
    <3>3. c # "CR" /\ c # "LF"
      BY <3>1
    <3> HIDE DEF Good
    <3>4. Good(Rs!Go(<<"value", "-", 0>>, {}))
      BY <3>2 DEF Good
    <3> QED BY <3>3, <3>4, Zenon DEF Rs!ValueStep, Rs!Stay
  <2>2. CASE i = 1
    <3>1. w \in {"conn", "te"} /\ Asks(l) = {}
      BY <2>2, LinesAsk DEF Words
    <3>2. LineWith(l, c) = Other
      BY <1>5, <2>2, <3>1, HalfLines
    <3> QED BY <1>0, <3>1, <3>2, LineValue
  <2> QED BY <2>1, <2>2
<1>6. Rs!IsWord(s) <=> i = 2
  BY <1>0 DEF Rs!IsWord
<1>7. /\ Rs!IsWord(s) /\ c \in Rs!Ends => Good(Rs!WordEnd(w, c, {"field"}))
      /\ Rs!IsWord(s) /\ w = "cl" /\ c \in Rs!Digit => Good(Rs!Go(s, {}))
      /\ ~Rs!IsWord(s) /\ c = Rs!ValueOf[w][2] => Good(Rs!Go(Rs!Reach(s, 2), {}))
      /\ /\ ~(Rs!IsWord(s) /\ c \in Rs!Ends) /\ ~(Rs!IsWord(s) /\ w = "cl" /\ c \in Rs!Digit)
         /\ ~(~Rs!IsWord(s) /\ c = Rs!ValueOf[w][2])
         => Good(Rs!ValueStep(<<"value", "-", 0>>, c))
  BY <1>2, <1>3, <1>4, <1>5, <1>6 DEF Rs!Ends
<1> HIDE DEF Good
<1>8. s[2] = w
  BY <1>0
<1>9. Good(Rs!AnyValueStep(s, c))
  BY <1>7, <1>8, Zenon DEF Rs!AnyValueStep, Rs!S, Rs!Stay
<1> QED BY <1>9 DEF Good

(* The line feed behind a carriage return. *)
LEMMA LineCrlf ==
    ASSUME NEW s, NEW c, NEW n, NEW l, NEW f, NEW g, LineFits(s, n, l, f, g), s[1] \in Rs!BreakStates
    PROVE  LineGood(s, c, Rs!CrlfStep(s, c), n, l, f, g)
<1> DEFINE Good(d) == LineGood(s, c, d, n, l, f, g)
<1>0. InHeaders(s) /\ (s[1] = "crlf" \/ s[1] = "crlfClose" \/ s[1] = "crlfTe" \/ s[1] = "lastcr")
  BY DEF InHeaders, Rs!ChunkStates, Rs!FirstStates, Rs!BreakStates
<1>1. s[1] = "crlf" /\ c = "LF" => Good(Rs!Go(<<"header", "-", 0>>, {}))
  <2> HAVE s[1] = "crlf" /\ c = "LF"
  <2>1. FlagsAt("header", <<>>, f, g \cup Asks(l)) /\ f = f \cup ({} \cap Headers) /\ "field" \notin {}
    BY DEF LineFits, FlagsAt
  <2>2. LineGood(s, "LF", Rs!Go(<<"header", "-", 0>>, {}), n, l, f, g)
    BY <1>0, <2>1, LineFeed
  <2> QED BY <2>2
<1>2. s[1] = "crlfClose" /\ c = "LF" => Good(Rs!Go(<<"closeLine", "-", 0>>, {}))
  <2> HAVE s[1] = "crlfClose" /\ c = "LF"
  <2>0. l \in Whole("conn") /\ f = g
    BY DEF LineFits, LineAt, FlagsAt
  <2>1. Asks(l) = {"close"}
    BY <2>0, LinesAsk DEF Words, Asked
  <2>2. FlagsAt("closeLine", <<>>, f, g \cup Asks(l)) /\ f = f \cup ({} \cap Headers) /\ "field" \notin {}
    BY <2>0, <2>1 DEF FlagsAt
  <2>3. LineGood(s, "LF", Rs!Go(<<"closeLine", "-", 0>>, {}), n, l, f, g)
    BY <1>0, <2>2, LineFeed
  <2> QED BY <2>3
<1>3. s[1] = "crlfTe" /\ c = "LF" => Good(Rs!Go(<<"header", "-", 0>>, {"chunked"}))
  <2> HAVE s[1] = "crlfTe" /\ c = "LF"
  <2>0. l \in Whole("te") /\ f = g
    BY DEF LineFits, LineAt, FlagsAt
  <2>1. Asks(l) = {"chunked"}
    BY <2>0, LinesAsk DEF Words, Asked
  <2>2. f \cup {"chunked"} = f \cup ({"chunked"} \cap Headers) /\ "field" \notin {"chunked"}
    BY DEF Headers
  <2>3. FlagsAt("header", <<>>, f \cup {"chunked"}, g \cup Asks(l))
    BY <2>0, <2>1 DEF FlagsAt
  <2>4. LineGood(s, "LF", Rs!Go(<<"header", "-", 0>>, {"chunked"}), n, l, f, g)
    BY <1>0, <2>2, <2>3, LineFeed
  <2> QED BY <2>4
<1>4. s[1] = "lastcr" /\ c = "LF" => Good(Rs!Go(<<"final", "-", 0>>, {"done"}))
  <2> HAVE s[1] = "lastcr" /\ c = "LF"
  <2>0. l = <<>> /\ f = g
    BY DEF LineFits, LineAt, FlagsAt
  <2>1. Asks(l) = {}
    BY <2>0, LinesAsk
  <2>2. f = f \cup ({"done"} \cap Headers) /\ "field" \notin {"done"}
    BY DEF Headers
  <2>3. FlagsAt("final", <<>>, f, g \cup Asks(l))
    BY <2>0, <2>1 DEF FlagsAt
  <2>4. LineGood(s, "LF", Rs!Go(<<"final", "-", 0>>, {"done"}), n, l, f, g)
    BY <1>0, <2>2, <2>3, LineFeed
  <2> QED BY <2>4
<1>5. Good(Rs!Fail)
  BY LineFails
<1> HIDE DEF Good
<1>6. Good(Rs!CrlfStep(s, c))
  BY <1>1, <1>2, <1>3, <1>4, <1>5, Zenon DEF Rs!CrlfStep, Rs!At, Rs!S, Rs!Stay
<1> QED BY <1>6 DEF Good

(* Any character of a response. *)
LEMMA LineDelta ==
    ASSUME NEW s, s = <<s[1], s[2], s[3]>>, ResponseState(s[1], s[2], s[3]), Reading(s),
           NEW c, NEW n, NEW l, NEW f, NEW g, LineFits(s, n, l, f, g),
           ~(InHeaders(s) /\ c \in {"CR", "LF"} /\ IsEmpty(l))
    PROVE  LineGood(s, c, Rs!Delta(s, c), n, l, f, g)
<1> DEFINE Good(d) == LineGood(s, c, d, n, l, f, g)
<1>1. s[1] \notin {"closeLine", "crlf", "error"} => f = g
  BY DEF LineFits, FlagsAt
<1>2. NamesAt(s[1], n) /\ LineAt(s[1], s[2], s[3], l) /\ s[1] \notin AfterEmpty
  BY DEF LineFits
<1>3. s[1] \in {"lws", "value", "any"} => n = Own /\ InHeaders(s) /\ f = g
  BY <1>1, <1>2 DEF NamesAt, InHeaders, Rs!ChunkStates, Rs!FirstStates
<1>4. s[1] \in Rs!ChunkStates => Good(Rs!ChunkDelta(s, c))
  BY <1>1, <1>2, LineChunk DEF Rs!ChunkStates
<1>5. s[1] \in Rs!FirstStates => Good(Rs!FirstDelta(s, c))
  BY <1>1, LineFirst DEF Rs!FirstStates
<1>6. s[1] = "start" => Good(Rs!StartStep(c))
  BY <1>1, LineFirst
<1>7. s[1] \in {"header", "closeLine"} => Good(Rs!HeaderStep(s, c))
  BY LineHeader
<1>8. s[1] \in Rs!NameStates => Good(Rs!NameStep(s, c))
  BY LineName DEF ResponseState
<1>9. s = <<"lws", "-", 0>> => Good(Rs!LwsStep(s, c))
  <2> HAVE s = <<"lws", "-", 0>>
  <2>1. l = Other /\ n = Own /\ f = g
    BY <1>2, <1>3 DEF LineAt
  <2> QED BY <2>1, LineLws
<1>10. s[1] = "lws" /\ s # <<"lws", "-", 0>> => Good(Rs!WordLwsStep(s, c))
  <2> HAVE s[1] = "lws" /\ s # <<"lws", "-", 0>>
  <2>1. s[2] \in Words \cup {"-"} /\ s[3] = 0
    BY DEF ResponseState
  <2>2. s = <<"lws", s[2], 0>> /\ s[2] \in Words
    BY <2>1
  <2>3. PICK w \in Words : w = s[2]
    BY <2>2
  <2>4. l \in Opened[w] /\ s = <<"lws", w, 0>>
    BY <1>2, <2>2, <2>3 DEF LineAt, Words
  <2> QED BY <1>3, <2>4, LineWordLws
<1>11. s[1] = "value" => Good(Rs!ValueStep(s, c))
  <2> HAVE s[1] = "value"
  <2>1. l = Other /\ s = <<"value", s[2], s[3]>>
    BY <1>2 DEF LineAt
  <2>2. Asks(l) = {} /\ LineWith(l, c) = Other
    BY <2>1, LinesAsk, NameLines
  <2> QED BY <1>3, <2>1, <2>2, LineValue
<1>12. s[1] \in Rs!BreakStates => Good(Rs!CrlfStep(s, c))
  BY LineCrlf
<1>13. s[1] = "any" => Good(Rs!AnyValueStep(s, c))
  <2> HAVE s[1] = "any"
  <2>1. PICK w \in Words, i \in {1, 2} : w = s[2] /\ i = s[3]
    BY DEF ResponseState
  <2>2. /\ s = <<"any", w, i>> /\ (w = "cl" => i = 2) /\ (i = 1 => l \in Half[w]) /\ (i = 2 => l \in Whole(w))
    BY <1>2, <2>1 DEF ResponseState, LineAt
  <2> QED BY <1>3, <2>2, LineAny
<1>14. s[1] \notin Rs!FoldStates
  BY <1>2 DEF AfterEmpty, Rs!FoldStates
<1>15. Good(Rs!Fail)
  BY LineFails
<1> HIDE DEF Good
<1>16. Good(Rs!Delta(s, c))
  BY <1>4, <1>5, <1>6, <1>7, <1>8, <1>9, <1>10, <1>11, <1>12, <1>13, <1>14, <1>15, Zenon DEF Rs!Delta, Rs!At, Rs!S
<1> QED BY <1>16 DEF Good

----------------------------------------------------------------------------
(* The size of a chunk *)

\* A transition that ends no size and leads to none.
Later(d) == d.to[1] \notin {"start", "chunkSize"} /\ "chunk_size" \notin d.acts

(* The parts that a later transition is made of. *)
LEMMA LaterGo ==
    ASSUME NEW a, a \notin {"start", "chunkSize"}, NEW w, NEW i, NEW acts, "chunk_size" \notin acts
    PROVE  Later(Rs!Go(<<a, w, i>>, acts))
<1> DEFINE t == <<a, w, i>>
<1>1. t[1] = a
  OBVIOUS
<1> HIDE DEF t
<1>2. Later(Rs!Go(t, acts))
  BY <1>1 DEF Later, Rs!Go
<1> QED BY <1>2 DEF t

(* Where a chunk header, a header line or a recognised value goes on. *)
LEMMA LaterEnds ==
    ASSUME NEW c, NEW acts, "chunk_size" \notin acts
    PROVE  /\ Later(Rs!Fail) /\ Later(Rs!ChunkEnd(c, acts)) /\ Later(Rs!LineStart(c, acts))
           /\ \A w \in Words : c \in Rs!Ends => Later(Rs!WordEnd(w, c, acts))
<1>1. "chunk_size" \notin acts \cup {"done"} /\ "chunk_size" \notin acts \cup {"field_start"}
      /\ "chunk_size" \notin acts \cup {"chunked"} /\ "chunk_size" \notin acts \cup {"content_len"} /\ "chunk_size" \notin {}
  OBVIOUS
<1>2. Later(Rs!Fail)
  BY <1>1, LaterGo DEF Rs!Fail, Rs!Stay, Rs!S
<1>3. /\ Later(Rs!Go(<<"final", "-", 0>>, acts \cup {"done"})) /\ Later(Rs!Go(<<"lastcr", "-", 0>>, acts))
      /\ Later(Rs!Go(<<"ext", "-", 0>>, acts))
      /\ \A a \in {"name", "nameC", "nameT"} : Later(Rs!Go(<<a, "-", 0>>, acts \cup {"field_start"}))
  BY <1>1, LaterGo
<1>4. /\ \A a \in {"closeLine", "crlfClose", "crlfTe"} : Later(Rs!Go(<<a, "-", 0>>, acts))
      /\ Later(Rs!Go(<<"header", "-", 0>>, acts \cup {"chunked"}))
      /\ \A a \in {"header", "crlf"} : Later(Rs!Go(<<a, "-", 0>>, acts \cup {"content_len"}))
  BY <1>1, LaterGo
<1>5. Later(Rs!ChunkEnd(c, acts))
  BY <1>2, <1>3, Zenon DEF Rs!ChunkEnd, Rs!S
<1>6. Later(Rs!LineStart(c, acts))
  BY <1>2, <1>3, Zenon DEF Rs!LineStart, Rs!S
<1>7. ASSUME NEW w \in Words, c \in Rs!Ends PROVE Later(Rs!WordEnd(w, c, acts))
  BY <1>4, <1>7, Zenon DEF Rs!WordEnd, Rs!S, Rs!Ends, Words
<1> QED BY <1>2, <1>5, <1>6, <1>7

(* Once a size has been read, or a status line begun, no transition reads another. *)
LEMMA LaterDelta ==
    ASSUME NEW s, s = <<s[1], s[2], s[3]>>, ResponseState(s[1], s[2], s[3]), s[1] \notin {"start", "chunkSize"}, NEW c
    PROVE  Later(Rs!Delta(s, c))
<1>0. Later(Rs!Fail) /\ \A i : Later(Rs!Stay(Rs!Reach(s, i))) /\ Later(Rs!Stay(s)) /\ Later(Rs!Go(s, {"mark"}))
  <2>1. \A i : Rs!Reach(s, i) = <<s[1], s[2], i>>
    BY DEF Rs!Reach
  <2>2. "chunk_size" \notin {} /\ "chunk_size" \notin {"mark"}
    OBVIOUS
  <2>3. \A i : Later(Rs!Go(<<s[1], s[2], i>>, {})) /\ Later(Rs!Go(<<s[1], s[2], i>>, {"mark"}))
    BY <2>2, LaterGo
  <2>4. \A i : Later(Rs!Go(Rs!Reach(s, i), {}))
    BY <2>1, <2>3
  <2>5. Later(Rs!Go(s, {})) /\ Later(Rs!Go(s, {"mark"}))
    BY <2>3
  <2> QED BY <2>2, <2>4, <2>5, LaterEnds DEF Rs!Stay
<1>a. ASSUME NEW acts \in {{}, {"mark"}, {"field"}, {"field_len"}, {"done"}, {"chunked"}, {"close"}, {"field_start"},
                          {"field_len", "mark"}, {"field_len", "mark", "field"}, {"mark", "field"}, {"field_start", "mark"},
                          {"version"}, {"status"}, {"reason"}}
      PROVE  "chunk_size" \notin acts
  BY <1>a
<1>b. s[1] \in Rs!ChunkStates => Later(Rs!ChunkDelta(s, c))
  <2>1. /\ Later(Rs!Go(<<"extName", "-", 0>>, {"field_start"})) /\ Later(Rs!Go(<<"extEq", "-", 0>>, {"field_len", "mark"}))
        /\ Later(Rs!Go(<<"extValue", "-", 0>>, {"mark"}))
    BY <1>a, LaterGo
  <2>2. Later(Rs!ChunkEnd(c, {"field_len", "mark", "field"})) /\ Later(Rs!ChunkEnd(c, {"field"}))
    BY <1>a, LaterEnds
  <2>3. Later(Rs!ExtNameStep(s, c)) /\ Later(Rs!ExtValueStep(s, c))
    BY <1>0, <2>1, <2>2, Zenon DEF Rs!ExtNameStep, Rs!ExtValueStep, Rs!S
  <2> QED BY <2>3, Zenon DEF Rs!ChunkDelta, Rs!ChunkStates, Rs!At
<1>c. s[1] \in Rs!FirstStates => Later(Rs!FirstDelta(s, c))
  <2>1. /\ Later(Rs!Go(<<"status0", "-", 0>>, {"version"})) /\ Later(Rs!Go(<<"reason0", "-", 0>>, {"status"}))
        /\ Later(Rs!Go(<<"status", "-", 0>>, {"mark"})) /\ Later(Rs!Go(<<"status", "-", 0>>, {}))
        /\ Later(Rs!Go(<<"reason", "-", 0>>, {"mark"})) /\ Later(Rs!Go(<<"crlf", "-", 0>>, {"reason"}))
        /\ Later(Rs!Go(<<"header", "-", 0>>, {"reason"}))
    BY <1>a, LaterGo
  <2>2. Later(Rs!VersionStep(s, c)) /\ Later(Rs!StatusStep(s, c)) /\ Later(Rs!ReasonStep(s, c))
    BY <1>0, <2>1, Zenon DEF Rs!VersionStep, Rs!StatusStep, Rs!ReasonStep, Rs!S
  <2> QED BY <2>2, Zenon DEF Rs!FirstDelta, Rs!FirstStates, Rs!At
<1>d. Later(Rs!HeaderStep(s, c)) /\ Later(Rs!LineStart(c, {}))
  BY <1>a, LaterEnds DEF Rs!HeaderStep
<1>e. ASSUME NEW u, u = s \/ u = <<"name", "-", 0>> PROVE u[1] # "named" \/ u = s => Later(Rs!NameStep(u, c))
  <2>1. \A a \in {"named", "nameIsValue", "name"} : \A w : Later(Rs!Stay(<<a, w, 0>>))
    BY <1>a, LaterGo DEF Rs!Stay
  <2>2. Later(Rs!Stay(Rs!Letter(u, c)))
    BY <2>1, Zenon DEF Rs!Letter, Rs!K, Rs!S
  <2>3. \A w : Later(Rs!Go(<<"lws", w, 0>>, {"field_len"}))
    BY <1>a, LaterGo
  <2> QED BY <1>0, <2>2, <2>3, Zenon DEF Rs!NameStep, Rs!K, Rs!S
<1>f. ASSUME NEW u, u = s \/ u = <<"value", "-", 0>> PROVE Later(Rs!ValueStep(u, c))
  <2>1. /\ Later(Rs!Go(<<"header", "-", 0>>, {"field"})) /\ Later(Rs!Go(<<"crlf", "-", 0>>, {"field"}))
        /\ Later(Rs!Go(<<"value", "-", 0>>, {}))
    BY <1>a, LaterGo
  <2> QED BY <1>0, <1>f, <2>1, Zenon DEF Rs!ValueStep, Rs!Stay, Rs!S
<1>g. Later(Rs!LwsStep(s, c)) /\ Later(Rs!CrlfStep(s, c))
  <2>1. /\ Later(Rs!Go(<<"header", "-", 0>>, {"mark", "field"})) /\ Later(Rs!Go(<<"crlf", "-", 0>>, {"mark", "field"}))
        /\ Later(Rs!Go(<<"value", "-", 0>>, {"mark"})) /\ Later(Rs!Go(<<"header", "-", 0>>, {}))
        /\ Later(Rs!Go(<<"closeLine", "-", 0>>, {})) /\ Later(Rs!Go(<<"header", "-", 0>>, {"chunked"}))
        /\ Later(Rs!Go(<<"final", "-", 0>>, {"done"}))
    BY <1>a, LaterGo
  <2> QED BY <1>0, <2>1, Zenon DEF Rs!LwsStep, Rs!CrlfStep, Rs!Stay, Rs!S
<1>h. ASSUME NEW w PROVE Later(Rs!Go(Rs!Begun("any", w), {"mark"})) /\ Later(Rs!Go(Rs!Begun("must", w), {"mark"}))
                         /\ Later(Rs!Go(Rs!Begun("must", w), {}))
  BY <1>a, LaterGo DEF Rs!Begun
<1>i. Later(Rs!WordLwsStep(s, c))
  <2>1. /\ \A w : Later(Rs!Go(<<"emptyLine", w, 0>>, {"mark", "field"})) /\ Later(Rs!Go(<<"emptyCr", w, 0>>, {"mark", "field"}))
        /\ Later(Rs!Go(<<"value", "-", 0>>, {"mark"}))
    BY <1>a, LaterGo
  <2> QED BY <1>0, <1>h, <2>1, Zenon DEF Rs!WordLwsStep, Rs!K, Rs!S
<1>j. s[2] \in Words /\ c \in Rs!Ends => Later(Rs!WordEnd(s[2], c, {"field"})) /\ Later(Rs!WordEnd(s[2], c, {}))
  BY <1>a, LaterEnds
<1>k. s[2] \in Words => Later(Rs!AnyValueStep(s, c)) /\ Later(Rs!MustValueStep(s, c)) /\ Later(Rs!NameIsValueStep(s, c))
  <2>1. Later(Rs!ValueStep(<<"value", "-", 0>>, c)) /\ Later(Rs!NameStep(<<"name", "-", 0>>, c))
    <3>1. \A w : <<"name", "-", 0>>[1] # "named"
      OBVIOUS
    <3> QED BY <1>e, <1>f, <3>1
  <2> QED BY <1>0, <1>j, <2>1, Zenon DEF Rs!AnyValueStep, Rs!MustValueStep, Rs!NameIsValueStep, Rs!S
<1>l. Later(Rs!EmptyLineStep(s, c)) /\ Later(Rs!FoldStep(s, c))
  <2>1. \A w : /\ Later(Rs!Go(<<"final", w, 0>>, {"done"})) /\ Later(Rs!Go(<<"emptyLineCr", w, 0>>, {}))
               /\ Later(Rs!Go(<<"fold", w, 0>>, {})) /\ Later(Rs!Go(<<"emptyLine", w, 0>>, {}))
               /\ Later(Rs!Go(<<"nameIsValue", w, 0>>, {"field_start", "mark"}))
    BY <1>a, LaterGo
  <2>2. Later(Rs!Go(<<"nameCl", "-", 0>>, {"field_start"})) /\ Later(Rs!Go(<<"nameCk", "-", 0>>, {"field_start", "mark"}))
    BY <1>a, LaterGo
  <2> QED BY <1>0, <1>d, <1>h, <2>1, <2>2, Zenon DEF Rs!EmptyLineStep, Rs!FoldStep, Rs!Stay, Rs!K, Rs!S
<1>m. s[1] \in {"any", "must", "nameIsValue"} => s[2] \in Words
  BY DEF ResponseState
<1>n. s[1] \in Rs!FoldStates => Later(Rs!FoldDelta(s, c))
  BY <1>k, <1>l, <1>m, Zenon DEF Rs!FoldDelta, Rs!FoldStates, Rs!At
<1>o. Later(Rs!NameStep(s, c)) /\ Later(Rs!ValueStep(s, c))
  BY <1>e, <1>f
<1> QED BY <1>0, <1>b, <1>c, <1>d, <1>g, <1>i, <1>k, <1>m, <1>n, <1>o, Zenon DEF Rs!Delta, Rs!At, Rs!S

\* The digits n and the size z of a chunk header in a state with name a, and chunks_done, d.
ChunkAt(a, n, z, d) ==
    /\ n \in 0 .. IntDigits /\ d \in BOOLEAN
    /\ a = "start" => n = 0 /\ z = "none" /\ ~d
    /\ a = "chunkSize" => z \in {"zero", "more"} /\ (n = 0 <=> z = "zero")
    /\ a \notin {"start", "chunkSize", "error"} /\ n < IntDigits => (d <=> z = "zero")

(* A character keeps the digits and the size of a chunk together. *)
LEMMA ChunkStep ==
    ASSUME NEW c, ChunkAt(cs[1], digits, size, chunks_done), Reading(cs), cs = <<cs[1], cs[2], cs[3]>>,
           ResponseState(cs[1], cs[2], cs[3]), NEW d, d = Rs!Delta(cs, c), ReadSize(cs, c, d.acts), size' = SizeWith(cs, c)
    PROVE  ChunkAt(d.to[1], digits', size', chunks_done')
<1>0. \A a, acts : (Rs!Go(Rs!S(a), acts)).to[1] = a /\ (Rs!Go(Rs!S(a), acts)).acts = acts
  BY DEF Rs!Go, Rs!S
<1>1. CASE cs[1] = "start"
  <2>1. d = Rs!StartStep(c)
    BY <1>1 DEF Rs!Delta, Rs!ChunkStates, Rs!FirstStates, Rs!NameStates, Rs!BreakStates, Rs!FoldStates, Rs!At, Rs!S
  <2>2. CASE c \in Rs!XDigit
    <3>1. d.to[1] = "chunkSize" /\ d.acts = {"mark"}
      BY <1>0, <2>1, <2>2 DEF Rs!StartStep, Rs!XDigit, Rs!Digit
    <3> QED BY <1>1, <2>2, <3>1 DEF ChunkAt, ReadSize, SizeWith, Significant, IntDigits
  <2>3. CASE c \notin Rs!XDigit
    <3>1. d.to[1] \in {"version", "error"} /\ "chunk_size" \notin d.acts
      BY <1>0, <2>1, <2>3 DEF Rs!StartStep, Rs!Fail, Rs!Stay
    <3> QED BY <1>1, <2>3, <3>1 DEF ChunkAt, ReadSize, SizeWith, Significant, IntDigits
  <2> QED BY <2>2, <2>3
<1>2. CASE cs[1] = "chunkSize"
  <2>1. d = Rs!ChunkSizeStep(cs, c)
    BY <1>2 DEF Rs!Delta, Rs!ChunkDelta, Rs!ChunkStates, Rs!FirstStates, Rs!NameStates, Rs!BreakStates, Rs!FoldStates,
       Rs!At, Rs!S
  <2>2. CASE c \in Rs!XDigit
    <3>1. d.to[1] = "chunkSize" /\ d.acts = {}
      BY <1>2, <2>1, <2>2 DEF Rs!ChunkSizeStep, Rs!Stay, Rs!Go
    <3> QED BY <1>2, <2>2, <3>1 DEF ChunkAt, ReadSize, SizeWith, Significant, IntDigits
  <2>3. CASE c \notin Rs!XDigit
    <3> DEFINE Ends(e) == /\ e.to[1] \in {"final", "lastcr", "ext", "error"} /\ "mark" \notin e.acts
                          /\ e.to[1] # "error" => "chunk_size" \in e.acts
               acts == {"chunked", "content_len", "chunk_size"}
    <3>1. Ends(Rs!Go(Rs!S("error"), {}))
      BY <1>0
    <3>2. /\ Ends(Rs!Go(Rs!S("final"), acts \cup {"done"})) /\ Ends(Rs!Go(Rs!S("lastcr"), acts))
          /\ Ends(Rs!Go(Rs!S("ext"), acts))
      BY <1>0
    <3>3. d = Rs!ChunkEnd(c, acts)
      BY <2>1, <2>3 DEF Rs!ChunkSizeStep
    <3> HIDE DEF Ends, acts
    <3>4. Ends(d)
      BY <3>1, <3>2, <3>3, Zenon DEF Rs!ChunkEnd, Rs!Fail, Rs!Stay
    <3>5. digits' = digits /\ size' = size
      BY <1>2, <2>3, <3>4 DEF Ends, ReadSize, SizeWith, Significant
    <3>6. digits' \in 0 .. IntDigits /\ (digits = 0 <=> size = "zero")
      BY <1>2, <3>5 DEF ChunkAt
    <3>7. chunks_done' \in BOOLEAN /\ (d.to[1] # "error" /\ digits < IntDigits => (chunks_done' <=> digits = 0))
      <4>1. CASE "chunk_size" \notin d.acts
        BY <3>4, <4>1 DEF Ends, ReadSize, ChunkAt
      <4>2. CASE "chunk_size" \in d.acts /\ digits = IntDigits
        BY <4>2 DEF ReadSize, IntDigits
      <4>3. CASE "chunk_size" \in d.acts /\ digits # IntDigits
        BY <4>3 DEF ReadSize
      <4> QED BY <4>1, <4>2, <4>3
    <3> QED BY <3>4, <3>5, <3>6, <3>7 DEF ChunkAt, Ends
  <2> QED BY <2>2, <2>3
<1>3. CASE cs[1] \notin {"start", "chunkSize"}
  <2>1. d.to[1] \notin {"start", "chunkSize"} /\ "chunk_size" \notin d.acts
    BY <1>3, LaterDelta DEF Later
  <2>2. digits' = digits /\ chunks_done' = chunks_done /\ size' = size
    BY <1>3, <2>1 DEF ReadSize, SizeWith
  <2> QED BY <1>3, <2>1, <2>2 DEF ChunkAt, Reading
<1> QED BY <1>1, <1>2, <1>3

----------------------------------------------------------------------------
(* The walks *)

\* A request's state fits its marks, names and callbacks; so does a response's, its lines as
\* long as no recognised header was empty, and the size of a chunk.
RequestInv  == side = "request" => RequestFits(cs, markOf, nameAt, calls)
ResponseInv == side = "response" => ResponseFits(cs, markOf, calls)
LinesInv    == side = "response" /\ ~emptySeen => LineFits(cs, nameAt, line, flags, told)
ChunkInv    == side = "response" => ChunkAt(cs[1], digits, size, chunks_done)

WalkInv ==
    /\ side \in {"request", "response"} /\ emptySeen \in BOOLEAN
    /\ RequestInv /\ ResponseInv /\ LinesInv /\ ChunkInv /\ OffsetsAreOwn

(* The parsers start in the invariant. *)
LEMMA WalkInvInit == InitWalk => WalkInv
<1> SUFFICES ASSUME InitWalk PROVE WalkInv
  OBVIOUS
<1>1. side \in {"request", "response"} /\ emptySeen = FALSE /\ made = {} /\ markOf = "none" /\ nameAt = NoName /\ calls = <<>>
      /\ line = <<>> /\ flags = {} /\ told = {} /\ digits = 0 /\ chunks_done = FALSE /\ size = "none"
  BY DEF InitWalk
<1>2. RequestInv
  <2> SUFFICES ASSUME side = "request" PROVE RequestFits(cs, markOf, nameAt, calls)
    BY DEF RequestInv
  <2>1. cs = <<"start", 0, "http">>
    BY DEF InitWalk, Rq!S
  <2>2. RequestAt("start", 0, "http", markOf, nameAt, calls)
    BY <1>1 DEF RequestAt, RequestCalls, RequestMark, RequestName, PathNames, FieldNames
  <2>3. RequestFits(<<"start", 0, "http">>, markOf, nameAt, calls)
    BY <2>2, FitsWhere
  <2> QED BY <2>1, <2>3
<1>3. ResponseInv /\ LinesInv /\ ChunkInv
  <2> SUFFICES ASSUME side = "response"
               PROVE  /\ ResponseFits(cs, markOf, calls) /\ LineFits(cs, nameAt, line, flags, told)
                      /\ ChunkAt(cs[1], digits, size, chunks_done)
    BY DEF ResponseInv, LinesInv, ChunkInv
  <2>1. cs = <<"start", "-", 0>>
    BY DEF InitWalk, Rs!S
  <2>2. ResponseAt("start", "-", 0, markOf, calls)
    BY <1>1 DEF ResponseAt, ResponseState, ResponseCalls, ResponseMark, LineStates, AfterEmpty
  <2>3. ResponseFits(<<"start", "-", 0>>, markOf, calls)
    BY <2>2, ResponseWhere
  <2>4. cs[1] = "start"
    BY <2>1
  <2>5. LineFits(cs, nameAt, line, flags, told)
    BY <1>1, <2>4 DEF LineFits, NamesAt, LineAt, FlagsAt, AfterEmpty
  <2>6. ChunkAt("start", 0, "none", FALSE)
    BY DEF ChunkAt, IntDigits
  <2> QED BY <1>1, <2>1, <2>3, <2>4, <2>5, <2>6
<1>4. OffsetsAreOwn
  BY <1>1 DEF OffsetsAreOwn
<1> QED BY <1>1, <1>2, <1>3, <1>4 DEF WalkInv

(* What one character does to the walk. *)
LEMMA MoveIs ==
    ASSUME NEW d, Move(d)
    PROVE  /\ cs' = d.to /\ markOf' = MarkAfter(cs, d, markOf) /\ nameAt' = NameAfter(d, nameAt)
           /\ calls' = Add(calls, Made(d.acts)) /\ made' = d.acts \cap Callbacks
           /\ flags' = flags \cup (d.acts \cap Headers) /\ side' = side
  BY DEF Move, MarkAfter, NameAfter

(* A character of a request keeps it ... *)
LEMMA RequestStep == WalkInv /\ ReadRequest => WalkInv'
<1> SUFFICES ASSUME WalkInv, ReadRequest PROVE WalkInv'
  OBVIOUS
<1>1. PICK c \in RequestChars : Move(Rq!Delta(cs, c))
  BY DEF ReadRequest
<1>2. PICK d : d = Rq!Delta(cs, c)
  OBVIOUS
<1>3. side = "request" /\ side' = "request" /\ emptySeen' = emptySeen /\ emptySeen \in BOOLEAN
  BY <1>1, MoveIs DEF ReadRequest, WalkInv
<1>4. RequestGood(cs, d, markOf, nameAt, calls)
  BY <1>2, <1>3, RequestDelta DEF ReadRequest, WalkInv, RequestInv
<1>5. RequestFits(cs', markOf', nameAt', calls') /\ Owned(d, markOf', nameAt') /\ made' = d.acts \cap Callbacks
  BY <1>1, <1>2, <1>4, MoveIs DEF RequestGood
<1>6. OffsetsAreOwn'
  BY <1>5 DEF OffsetsAreOwn, Owned
<1> QED BY <1>3, <1>5, <1>6 DEF WalkInv, RequestInv, ResponseInv, LinesInv, ChunkInv

(* ... and so does one of a response. *)
LEMMA ResponseStep == WalkInv /\ ReadResponse => WalkInv'
<1> SUFFICES ASSUME WalkInv, ReadResponse PROVE WalkInv'
  OBVIOUS
<1>1. PICK c \in ResponseChars :
         /\ Move(Rs!Delta(cs, c))
         /\ ReadSize(cs, c, Rs!Delta(cs, c).acts)
         /\ line' = LineAfter(cs, c, line)
         /\ told' = ToldAfter(cs, c, line, told)
         /\ size' = SizeWith(cs, c)
         /\ emptySeen' = (emptySeen \/ (InHeaders(cs) /\ c \in {"CR", "LF"} /\ IsEmpty(line)))
  BY DEF ReadResponse, LineAfter, ToldAfter
<1>2. PICK d : d = Rs!Delta(cs, c)
  OBVIOUS
<1>3. side = "response" /\ side' = "response" /\ Reading(cs) /\ emptySeen' \in BOOLEAN
  BY <1>1, MoveIs DEF ReadResponse, WalkInv
<1>4. ResponseFits(cs, markOf, calls)
  BY <1>3 DEF WalkInv, ResponseInv
<1>5. ResponseGood(cs, d, markOf, calls)
  BY <1>2, <1>3, <1>4, ResponseDelta
<1>6. ResponseFits(cs', markOf', calls') /\ OwnMark(d, markOf') /\ made' = d.acts \cap Callbacks
  BY <1>1, <1>2, <1>5, MoveIs DEF ResponseGood
<1>7. ASSUME ~emptySeen' PROVE LineGood(cs, c, d, nameAt, line, flags, told)
  <2>1. ~emptySeen /\ ~(InHeaders(cs) /\ c \in {"CR", "LF"} /\ IsEmpty(line))
    BY <1>1, <1>7
  <2>2. LineFits(cs, nameAt, line, flags, told)
    BY <1>3, <2>1 DEF WalkInv, LinesInv
  <2>3. cs = <<cs[1], cs[2], cs[3]>> /\ ResponseState(cs[1], cs[2], cs[3])
    BY <1>4 DEF ResponseFits, ResponseAt
  <2>4. LineGood(cs, c, Rs!Delta(cs, c), nameAt, line, flags, told)
    BY <1>3, <2>1, <2>2, <2>3, LineDelta
  <2> QED BY <1>2, <2>4
<1>8. ~emptySeen' => /\ LineFits(cs', nameAt', line', flags', told')
                     /\ "field" \in d.acts => nameAt' = Own
  BY <1>1, <1>2, <1>7, MoveIs DEF LineGood
<1>9. OffsetsAreOwn'
  <2>1. \A a \in made' \cap DOMAIN OwnParts : markOf' \in OwnParts[a]
    BY <1>6 DEF OwnMark
  <2>2. "field" \in made' /\ ~emptySeen' => nameAt' = [start |-> 1, len |-> 1]
    BY <1>6, <1>8 DEF Own
  <2> QED BY <2>1, <2>2 DEF OffsetsAreOwn
<1>10. ChunkAt(cs[1]', digits', size', chunks_done')
  <2>1. ChunkAt(cs[1], digits, size, chunks_done)
    BY <1>3 DEF WalkInv, ChunkInv
  <2>2. cs = <<cs[1], cs[2], cs[3]>> /\ ResponseState(cs[1], cs[2], cs[3])
    BY <1>4 DEF ResponseFits, ResponseAt
  <2>3. ReadSize(cs, c, d.acts) /\ cs' = d.to
    BY <1>1, <1>2, MoveIs
  <2>4. ChunkAt(d.to[1], digits', size', chunks_done')
    BY <1>1, <1>2, <1>3, <2>1, <2>2, <2>3, ChunkStep
  <2> QED BY <2>3, <2>4
<1> QED BY <1>3, <1>6, <1>8, <1>9, <1>10 DEF WalkInv, RequestInv, ResponseInv, LinesInv, ChunkInv

(* The parsers keep the invariant at every character of any message. *)
THEOREM WalkInductive == WalkSpec => []WalkInv
<1>1. InitWalk => WalkInv
  BY WalkInvInit
<1>2. WalkInv /\ [Walk]_walkVars => WalkInv'
  <2> SUFFICES ASSUME WalkInv, [Walk]_walkVars PROVE WalkInv'
    OBVIOUS
  <2>1. CASE ReadRequest
    BY <2>1, RequestStep
  <2>2. CASE ReadResponse
    BY <2>2, ResponseStep
  <2>3. CASE UNCHANGED walkVars
    BY <2>3 DEF walkVars, chunkVars, WalkInv, RequestInv, ResponseInv, LinesInv, ChunkInv, OffsetsAreOwn
  <2> QED BY <2>1, <2>2, <2>3 DEF Walk
<1> QED BY <1>1, <1>2, PTL DEF WalkSpec

(* OffsetsAreOwn of every message: each callback of both generated parsers is handed the text
   of its own part and each field callback the name of its line. *)
THEOREM OffsetsCorrect == WalkSpec => []OffsetsAreOwn
<1>1. WalkInv => OffsetsAreOwn
  BY DEF WalkInv
<1> QED BY <1>1, WalkInductive, PTL

(* CompleteInOrder of every message: what either parser calls complete has been reported once
   and in order. *)
THEOREM OrderCorrect == WalkSpec => []CompleteInOrder
<1>1. WalkInv => CompleteInOrder
  BY DEF WalkInv, CompleteInOrder, RequestInv, ResponseInv, RequestFits, RequestAt, RequestCalls, ResponseFits, ResponseAt,
         ResponseCalls
<1> QED BY <1>1, WalkInductive, PTL

(* FlagsMatchLines of every message: close, chunked and content_len say what the lines of a
   complete response, or the size in a complete chunk header, ask for, and chunks_done that
   this size is 0. *)
THEOREM FlagsCorrect == WalkSpec => []FlagsMatchLines
<1>1. WalkInv => FlagsMatchLines
  BY DEF WalkInv, FlagsMatchLines, LinesInv, LineFits, FlagsAt, ChunkInv, ChunkAt
<1> QED BY <1>1, WalkInductive, PTL
==============================================================================
