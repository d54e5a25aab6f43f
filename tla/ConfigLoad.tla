----------------------------- MODULE ConfigLoad -----------------------------
(***************************************************************************)
(* A configuration file on its way to the loggers: LoadFromConfDir()       *)
(* (config.cpp) reads a file again when its modification time has changed, *)
(* ConfigVar::setValue() (config.h) calls the listeners and then stores    *)
(* the value, and the listener of "logs" (LogIniter in logger.cpp) applies *)
(* the difference between the old definitions and the new ones.            *)
(* setValue() holds a read lock only, so two threads can be in it.         *)
(* Names have the prefix Conf: the module is checked beside others.        *)
(***************************************************************************)
EXTENDS Integers, Sequences

CONSTANTS Loaders,     \* threads that call LoadFromConfDir()
          Overlap,     \* they do so at the same time
          LoggerNames, \* in the order of std::set: numbers
          Levels, Appenders,
          Definitions, \* of a logger: [level, outs], its appenders in order
          Undefined,   \* no definition of a logger
          Broken,      \* a file that YAML cannot read
          MaxTime,     \* bound: the clock, in seconds as st_mtime
          MaxEdits     \* bound: how often the file is edited

ASSUME ConfAssumption ==
    /\ LoggerNames \subseteq Nat /\ Overlap \in BOOLEAN
    /\ "DEBUG" \in Levels /\ "stdout" \in Appenders
    /\ Definitions \subseteq [level : Levels, outs : Seq(Appenders)]
    /\ Undefined \notin Definitions /\ MaxTime \in Nat \ {0} /\ MaxEdits \in Nat

VARIABLES conf,    \* what the file defines, or Broken
          mtime,   \* its st_mtime
          second,  \* the clock
          edits,   \* bound
          hidden,  \* history: it was edited in the second s_file2modifytime has
          seen,    \* s_file2modifytime; 0: not loaded yet
          value,   \* m_val of "logs"
          logger,  \* level and appenders of each logger
          loader   \* of each thread: where it is, st_mtime, the new value,
                   \* the loggers it still has to look at, appenders added

confVars == <<conf, mtime, second, edits, hidden, seen, value, logger, loader>>

Logs == [LoggerNames -> Definitions \cup {Undefined}]
\* What getLogger() makes.
NewLogger == [level |-> "DEBUG", outs |-> <<"stdout">>]
Unused == [at |-> "out", st |-> 0, new |-> [n \in LoggerNames |-> Undefined], todo |-> {}, added |-> 0]
Defined(logs) == {n \in LoggerNames : logs[n] # Undefined}

ConfTypeOK ==
    /\ conf \in Logs \cup {Broken} /\ value \in Logs
    /\ second \in 1 .. MaxTime /\ mtime \in 1 .. second /\ seen \in 0 .. second
    /\ edits \in 0 .. MaxEdits /\ hidden \in BOOLEAN
    /\ logger \in [LoggerNames -> [level : Levels, outs : Seq(Appenders)]]
    /\ loader \in [Loaders -> [at : {"out", "check", "parse", "each", "add", "store"}, st : 0 .. MaxTime,
                               new : Logs, todo : SUBSET LoggerNames, added : Nat]]

ConfInit ==
    /\ conf \in Logs /\ mtime = 1 /\ second = 1 /\ edits = 0 /\ hidden = FALSE /\ seen = 0
    /\ value = [n \in LoggerNames |-> Undefined]
    /\ logger = [n \in LoggerNames |-> NewLogger]
    /\ loader = [w \in Loaders |-> Unused]

Edit ==
    /\ edits < MaxEdits /\ edits' = edits + 1
    /\ conf' \in (Logs \cup {Broken}) \ {conf}
    /\ mtime' = second /\ hidden' = (seen = second)
    /\ UNCHANGED <<second, seen, value, logger, loader>>

Tick ==
    /\ second < MaxTime /\ second' = second + 1
    /\ UNCHANGED <<conf, mtime, edits, hidden, seen, value, logger, loader>>

\* LoadFromConfDir(): lstat().
LoadStat(w) ==
    /\ loader[w].at = "out"
    /\ Overlap \/ \A v \in Loaders : loader[v].at = "out"
    /\ loader' = [loader EXCEPT ![w].at = "check", ![w].st = mtime]
    /\ UNCHANGED <<conf, mtime, second, edits, hidden, seen, value, logger>>

\* The test of s_file2modifytime under s_mutex; force reads the file anyway.
LoadCheck(w, force) ==
    /\ loader[w].at = "check"
    /\ seen' = loader[w].st
    /\ loader' = [loader EXCEPT ![w].at = IF ~force /\ seen = loader[w].st THEN "out" ELSE "parse"]
    /\ UNCHANGED <<conf, mtime, second, edits, hidden, value, logger>>

\* YAML::LoadFile(), and setValue() up to its first test; an exception ends the load.
LoadParse(w) ==
    /\ loader[w].at = "parse"
    /\ loader' = IF conf = Broken \/ conf = value THEN [loader EXCEPT ![w] = Unused]
                 ELSE [loader EXCEPT ![w].at = "each", ![w].new = conf, ![w].todo = Defined(conf)]
    /\ UNCHANGED <<conf, mtime, second, edits, hidden, seen, value, logger>>

First(w) == CHOOSE n \in loader[w].todo : \A k \in loader[w].todo : n <= k
LookedAt(w, at) ==
    [loader EXCEPT ![w].at = at, ![w].added = 0,
                   ![w].todo = IF at = "each" THEN @ \ {First(w)} ELSE @]

\* Mutant of ResetLogger: the appenders of a logger that changes are not cleared.
ResetLoggerKeeps(w) ==
    LET n == First(w)  def == loader[w].new[n] IN
    /\ loader[w].at = "each" /\ loader[w].todo # {}
    /\ IF value[n] = def THEN loader' = LookedAt(w, "each") /\ UNCHANGED logger
       ELSE /\ logger' = [logger EXCEPT ![n].level = def.level]
            /\ loader' = LookedAt(w, "add")
    /\ UNCHANGED <<conf, mtime, second, edits, hidden, seen, value>>

\* The listener, for the next definition: a new or changed one sets the level and
\* clears the appenders; a logger that is no longer defined stays as it is.
ResetLogger(w) ==
    LET n == First(w)  def == loader[w].new[n] IN
    /\ loader[w].at = "each" /\ loader[w].todo # {}
    /\ IF value[n] = def THEN loader' = LookedAt(w, "each") /\ UNCHANGED logger
       ELSE /\ logger' = [logger EXCEPT ![n] = [level |-> def.level, outs |-> <<>>]]
            /\ loader' = LookedAt(w, "add")
    /\ UNCHANGED <<conf, mtime, second, edits, hidden, seen, value>>

\* addAppender(), one after the other.
AddAppender(w) ==
    LET n == First(w)  def == loader[w].new[n] IN
    /\ loader[w].at = "add"
    /\ IF loader[w].added = Len(def.outs) THEN loader' = LookedAt(w, "each") /\ UNCHANGED logger
       ELSE /\ logger' = [logger EXCEPT ![n].outs = Append(@, def.outs[loader[w].added + 1])]
            /\ loader' = [loader EXCEPT ![w].added = @ + 1]
    /\ UNCHANGED <<conf, mtime, second, edits, hidden, seen, value>>

\* m_val = v.
StoreValue(w) ==
    /\ loader[w].at = "each" /\ loader[w].todo = {}
    /\ value' = loader[w].new
    /\ loader' = [loader EXCEPT ![w] = Unused]
    /\ UNCHANGED <<conf, mtime, second, edits, hidden, seen, logger>>

ConfNext ==
    \/ Edit \/ Tick
    \/ \E w \in Loaders :
        \/ LoadStat(w) \/ LoadParse(w) \/ ResetLogger(w) \/ AddAppender(w) \/ StoreValue(w)
        \/ \E force \in BOOLEAN : LoadCheck(w, force)

ConfSpec == ConfInit /\ [][ConfNext]_confVars

-----------------------------------------------------------------------------
(* Properties                                                              *)

\* As to levels and appenders, applying differences comes to the same as starting
\* from the file: when it has been loaded, every logger it defines has its level and
\* its appenders, each once, whatever the earlier versions said, the broken ones
\* included.  It takes one load at a time, and edits that st_mtime tells apart.
\* Formatters are not in the model: one that is taken away stays (logger.cpp:691).
LoggersFollow ==
    (\A w \in Loaders : loader[w].at = "out") /\ seen = mtime /\ ~hidden /\ conf # Broken
    => \A n \in Defined(conf) : logger[n] = conf[n]
=============================================================================
