----------------------------- MODULE ConfigLog -----------------------------
(***************************************************************************)
(* ConfigVar and Config (src/dwframe/config.h, config.cc): threads that    *)
(* load YAML documents and thereby set variables, whose listeners keep     *)
(* copies: the loggers for "logs", a static copy for a number such as the  *)
(* connect timeout of hook.cc or the buffer sizes of http_parser.cc.       *)
(***************************************************************************)
EXTENDS Log

CONSTANTS Threads,
          Documents,   \* sequences of <<name, text>>
          MaxLoads     \* bound of LodeFromYaml calls

Logs == "logs"
Size == "size"
Vars == {Logs, Size}               \* GetDatas(): what LookUp has created

\* The pairs of the documents.  A text is what FromStr makes of it: [ok, value], where ok is
\* FALSE if FromStr throws, else a value of the variable's type.
Entries == UNION {{doc[i] : i \in DOMAIN doc} : doc \in Documents}
ASSUME DocumentsAssumption ==
    /\ Documents \subseteq Seq(Entries)
    /\ \A e \in Entries : e[1] = Logs /\ e[2].ok => LogDefines(e[2].value)

VARIABLES m_val,       \* ConfigVar::m_val of each variable
          work,        \* [Threads -> what a call of LodeFromYaml has still to set]
          pc, val,     \* where setValue is, and its argument
          solo,        \* history: no other setValue of the variable has run at the same time
          mixed,       \* history: variables whose last setValue overlapped another
          overlapped,  \* history: variables that ever had overlapping calls
          loggers, cache,
          crashed,     \* a null pointer was used
          ever,        \* history: names that "logs" has defined
          loads

vars == <<m_val, work, pc, val, solo, mixed, overlapped, loggers, cache, crashed, ever, loads>>

Init ==
    /\ m_val = [x \in Vars |-> IF x = Logs THEN {} ELSE 0]
    /\ work = [t \in Threads |-> <<>>]
    /\ pc = [t \in Threads |-> "idle"]
    /\ val = [t \in Threads |-> 0]
    /\ solo = [t \in Threads |-> TRUE]
    /\ mixed = {} /\ overlapped = {}
    /\ loggers = InitLoggers /\ cache = 0
    /\ crashed = FALSE
    /\ ever = {} /\ loads = 0

Name(t) == Head(work[t])[1]
Text(t) == Head(work[t])[2]
Setting(t, x) == pc[t] \in {"calling", "assign"} /\ Name(t) = x

\* RWMutex: nobody reads or writes while m_val is written; assignments are one step.
Readers(x) == {t \in Threads : pc[t] = "calling" /\ Name(t) = x}

--------------------------------------------------------------------------
ValidName(name) == name # "BAD-NAME"

\* LodeFromYaml: all names are listed before anything is set, and an invalid one throws.
LodeFromYaml(t) ==
    /\ work[t] = <<>> /\ loads < MaxLoads
    /\ loads' = loads + 1
    /\ \E doc \in Documents :
         work' = [work EXCEPT ![t] = IF \A i \in DOMAIN doc : ValidName(doc[i][1]) THEN doc ELSE <<>>]
    /\ UNCHANGED <<m_val, pc, val, solo, mixed, overlapped, loggers, cache, crashed, ever>>

\* LookupBase finds no variable of that name, or the text cannot be converted (fromString
\* catches what FromStr throws), or the value is the present one: on to the next.
Skip(t) ==
    /\ pc[t] = "idle" /\ work[t] # <<>>
    /\ \/ Name(t) \notin Vars
       \/ Name(t) \in Vars /\ ~Text(t).ok
       \/ Name(t) \in Vars /\ Text(t).ok /\ m_val[Name(t)] = Text(t).value
    /\ work' = [work EXCEPT ![t] = Tail(@)]
    /\ UNCHANGED <<m_val, pc, val, solo, mixed, overlapped, loggers, cache, crashed, ever, loads>>

\* setValue, first part: under the read lock the value differs.
SetBegin(t) ==
    /\ pc[t] = "idle" /\ work[t] # <<>>
    /\ Name(t) \in Vars /\ Text(t).ok /\ m_val[Name(t)] # Text(t).value
    /\ pc' = [pc EXCEPT ![t] = "calling"]
    /\ val' = [val EXCEPT ![t] = Text(t).value]
    /\ LET others == {u \in Threads \ {t} : Setting(u, Name(t))} IN
       solo' = [u \in Threads |-> IF u = t THEN others = {} ELSE solo[u] /\ u \notin others]
    /\ UNCHANGED <<m_val, work, mixed, overlapped, loggers, cache, crashed, ever, loads>>

\* Mutant: the arguments of a listener are exchanged.
CallListenersSwapped(t) ==
    /\ pc[t] = "calling" /\ ~crashed
    /\ Name(t) = Size
    /\ cache' = m_val[Size]
    /\ pc' = [pc EXCEPT ![t] = "assign"]
    /\ UNCHANGED <<m_val, work, val, solo, mixed, overlapped, loggers, crashed, ever, loads>>

\* The listener is called with the old and the new value; then the read lock is released.
CallListeners(t) ==
    /\ pc[t] = "calling" /\ ~crashed
    /\ \/ /\ Name(t) = Size
          /\ cache' = val[t]
          /\ pc' = [pc EXCEPT ![t] = "assign"]
          /\ UNCHANGED <<loggers, crashed, ever>>
       \/ /\ Name(t) = Logs /\ Kept(m_val[Logs], val[t]) = {}
          /\ loggers' = Listener(loggers, m_val[Logs], val[t])
          /\ ever' = ever \cup Names(val[t])
          /\ pc' = [pc EXCEPT ![t] = "assign"]
          /\ UNCHANGED <<cache, crashed>>
       \/ /\ Name(t) = Logs /\ Kept(m_val[Logs], val[t]) # {}
          /\ crashed' = TRUE
          /\ UNCHANGED <<loggers, cache, pc, ever>>
    /\ UNCHANGED <<m_val, work, val, solo, mixed, overlapped, loads>>

\* Second part, under the write lock.
Assign(t) ==
    /\ pc[t] = "assign" /\ Readers(Name(t)) = {}
    /\ m_val' = [m_val EXCEPT ![Name(t)] = val[t]]
    /\ mixed' = IF solo[t] THEN mixed \ {Name(t)} ELSE mixed \cup {Name(t)}
    /\ overlapped' = overlapped \cup mixed'
    /\ pc' = [pc EXCEPT ![t] = "idle"]
    /\ val' = [val EXCEPT ![t] = 0]
    /\ solo' = [solo EXCEPT ![t] = TRUE]
    /\ work' = [work EXCEPT ![t] = Tail(@)]
    /\ UNCHANGED <<loggers, cache, crashed, ever, loads>>

\* The application changes the pattern of a logger it has got by name.
SetFormatter(name, f) ==
    /\ loggers' = [getLogger(loggers, name) EXCEPT ![name] = setFormatter(@, f)]
    /\ loggers' # loggers
    /\ UNCHANGED <<m_val, work, pc, val, solo, mixed, overlapped, cache, crashed, ever, loads>>

Set(t) == Skip(t) \/ SetBegin(t) \/ CallListeners(t) \/ Assign(t)

Next ==
    /\ ~crashed
    /\ \/ \E t \in Threads : LodeFromYaml(t) \/ Set(t)
       \/ \E name \in {Root, "system"}, f \in {"short", Bad} : SetFormatter(name, f)

Spec == Init /\ [][Next]_vars

--------------------------------------------------------------------------

Quiet(x) == x \notin mixed /\ \A t \in Threads : ~Setting(t, x)

\* When no setValue is under way and the last did not overlap another, the loggers are as
\* "logs" says, whatever values it had before: level and appenders of every definition.
LoggersFollow ==
    Quiet(Logs) => \A d \in m_val[Logs] :
        /\ d.name \in DOMAIN loggers
        /\ loggers[d.name].level = d.level
        /\ Len(loggers[d.name].appenders) = Len(d.appenders)
        /\ \A i \in DOMAIN d.appenders :
             /\ loggers[d.name].appenders[i].type = d.appenders[i].type
             /\ loggers[d.name].appenders[i].level = d.appenders[i].level

\* The same for the copy of a number that a listener keeps; variables do not disturb each
\* other.
CacheFollows == Quiet(Size) => cache = m_val[Size]

\* A logger that is no longer defined writes nothing, not even through the root logger, if no
\* two calls of setValue ever overlapped: the listener of a later call does not know of it.
DeletedIsSilent ==
    Quiet(Logs) /\ Logs \notin overlapped => \A n \in ever \ Names(m_val[Logs]) : log(loggers, n, FATAL) = {}

\* What listeners keep follows the variables, in all three respects, for any sequence of
\* values and whatever the calls of setValue on the other variable do.
ListenersFollow == LoggersFollow /\ CacheFollows /\ DeletedIsSilent

\* An appender without a formatter of its own uses the present formatter of its logger, and no
\* formatter in use is in error, after any sequence of calls of Logger::setFormatter with a
\* pattern and of settings that the listener applies (setFormatter with a formatter object,
\* which the caller has made, is not among them).
FormattersFollow ==
    \A n \in DOMAIN loggers :
        /\ loggers[n].formatter \notin {Bad, NoFormat}
        /\ \A i \in DOMAIN loggers[n].appenders :
             LET a == loggers[n].appenders[i] IN
             IF a.own THEN a.formatter \notin {Bad, NoFormat} ELSE a.formatter = loggers[n].formatter

=============================================================================
