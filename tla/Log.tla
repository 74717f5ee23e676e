-------------------------------- MODULE Log --------------------------------
(***************************************************************************)
(* The loggers of src/dwframe/log.cc: the appenders and formatters of a    *)
(* Logger, where a message goes, and what LogIniter's listener makes of a  *)
(* new value of the variable "logs".                                       *)
(***************************************************************************)
EXTENDS Integers, Sequences

--------------------------------------------------------------------------
(* Loggers: [level, formatter, appenders]; an appender is [type, level,    *)
(* formatter, own], own being has_formatter.  A formatter that is in error *)
(* is Bad, an empty one NoFormat.                                          *)

Root     == "root"
Deleted  == 100
DEBUG    == 1
FATAL    == 5
NoFormat == "empty"
Bad      == "bad"
Default  == "default"

NewLogger == [level |-> DEBUG, formatter |-> Default, appenders |-> <<>>]

\* Logger::addAppender: an appender without a formatter gets the logger's.
Adopted(lg, ap) == IF ap.formatter = NoFormat THEN [ap EXCEPT !.formatter = lg.formatter] ELSE ap
addAppender(lg, ap) == [lg EXCEPT !.appenders = Append(@, Adopted(lg, ap))]

\* Mutant: the appenders keep the formatter they have.
setFormatterAlone(lg, f) == IF f = Bad THEN lg ELSE [lg EXCEPT !.formatter = f]

\* Logger::setFormatter: an invalid pattern changes nothing; appenders follow unless they
\* have a formatter of their own.
Follow(ap, f) == IF ap.own THEN ap ELSE [ap EXCEPT !.formatter = f]
setFormatter(lg, f) ==
    IF f = Bad THEN lg
    ELSE [lg EXCEPT !.formatter = f,
                    !.appenders = [i \in DOMAIN lg.appenders |-> Follow(lg.appenders[i], f)]]

clearAppends(lg) == [lg EXCEPT !.appenders = <<>>]

\* LoggerManager::LoggerManager and getLogger.
InitLoggers ==
    [n \in {Root} |-> addAppender(NewLogger, [type |-> "stdout", level |-> DEBUG,
                                              formatter |-> NoFormat, own |-> FALSE])]
getLogger(ls, name) ==
    IF name \in DOMAIN ls THEN ls
    ELSE [n \in DOMAIN ls \cup {name} |-> IF n = name THEN NewLogger ELSE ls[n]]

\* Logger::log and the appenders' log: which appenders, of which logger, write the message.
log(ls, name, level) ==
    LET writes(n) == IF level < ls[n].level THEN {}
                     ELSE {<<n, i>> : i \in {k \in DOMAIN ls[n].appenders :
                                                level >= ls[n].appenders[k].level}}
    IN  IF level < ls[name].level THEN {}
        ELSE IF ls[name].appenders # <<>> \/ name = Root THEN writes(name) ELSE writes(Root)

--------------------------------------------------------------------------
(* The listener.  A value of "logs" is a std::set of LogDefines, which are *)
(* ordered by their names: one definition of a name.                       *)

LogAppenderDefine == [type : STRING, level : Int, formatter : STRING]
LogDefine == [name : STRING, level : Int, formatter : STRING, appenders : Seq(LogAppenderDefine)]
LogDefines(v) == v \subseteq LogDefine /\ \A d, e \in v : d.name = e.name => d = e

NewAppender(a) ==
    IF a.formatter \in {NoFormat, Bad}
    THEN [type |-> a.type, level |-> a.level, formatter |-> NoFormat, own |-> FALSE]
    ELSE [type |-> a.type, level |-> a.level, formatter |-> a.formatter, own |-> TRUE]

\* addAppender in a loop: the formatter stays the same, so each appender is adopted alone.
Define(lg, d) ==
    LET set == [lg EXCEPT !.level = d.level]
        fmt == IF d.formatter = NoFormat THEN set ELSE setFormatter(set, d.formatter)
    IN  [fmt EXCEPT !.appenders =
            [i \in DOMAIN d.appenders |-> Adopted(fmt, NewAppender(d.appenders[i]))]]

Delete(lg) == [clearAppends(lg) EXCEPT !.level = Deleted]

Names(v) == {d.name : d \in v}

\* `logger` stays null for a definition that has not changed, and is used.
Kept(old, new) == old \cap new

Listener(ls, old, new) ==
    LET got(n) == IF n \in DOMAIN ls THEN ls[n] ELSE NewLogger       \* getLogger
        gone   == Names(old) \ Names(new)
    IN  [n \in DOMAIN ls \cup Names(old) \cup Names(new) |->
            IF n \in Names(new) THEN Define(got(n), CHOOSE d \in new : d.name = n)
            ELSE IF n \in gone THEN Delete(got(n)) ELSE got(n)]

=============================================================================
