-------------------------- MODULE ServletDispatch --------------------------
(***************************************************************************)
(* ServletDispatch (src/dwframe/http/servlet.h, servlet.cc): exact uris in *)
(* a map, globs in a vector, and a default.  Every operation holds m_mutex *)
(* from beginning to end, so each is one step.  A creator is represented   *)
(* by the servlet that its get() returns.                                  *)
(***************************************************************************)
EXTENDS Naturals, Sequences, SequencesExt, TLC

CONSTANTS Uris,        \* the exact uris and the globs that are registered
          Globs,
          Servlets

None == "none"         \* no servlet

ASSUME ServletsAssumption == None \notin Servlets

VARIABLES m_datas,     \* uri -> servlet
          m_globs,     \* the vector of pairs <<glob, servlet>>
          m_default,
          registered   \* history: for each glob the servlet registered last, or None

dispatchVars == <<m_datas, m_globs, m_default, registered>>

NotFound == "NotFound"

InitDispatch ==
    /\ m_datas = <<>>
    /\ m_globs = <<>>
    /\ m_default = NotFound
    /\ registered = [g \in Globs |-> None]

\* Erase the first entry of glob g and break off.
EraseGlob(globs, g) ==
    LET hits == {i \in DOMAIN globs : globs[i][1] = g} IN
    IF hits = {} THEN globs
    ELSE RemoveAt(globs, CHOOSE i \in hits : \A j \in hits : i <= j)

\* Mutant: an earlier entry of the glob stays.
PutGlobAgain(globs, g, slt) == Append(globs, <<g, slt>>)

PutGlob(globs, g, slt) == Append(EraseGlob(globs, g), <<g, slt>>)

addServlet(u, slt) ==
    /\ m_datas' = (u :> slt) @@ m_datas
    /\ UNCHANGED <<m_globs, m_default, registered>>

addGlobServlet(g, slt) ==
    /\ m_globs' = PutGlob(m_globs, g, slt)
    /\ registered' = [registered EXCEPT ![g] = slt]
    /\ UNCHANGED <<m_datas, m_default>>

delServlet(u) ==
    /\ m_datas' = [v \in DOMAIN m_datas \ {u} |-> m_datas[v]]
    /\ UNCHANGED <<m_globs, m_default, registered>>

delGlobServlet(g) ==
    /\ m_globs' = EraseGlob(m_globs, g)
    /\ registered' = [registered EXCEPT ![g] = None]
    /\ UNCHANGED <<m_datas, m_default>>

setDefault(slt) ==
    /\ m_default' = slt
    /\ UNCHANGED <<m_datas, m_globs, registered>>

\* fnmatch without flags, for globs whose only special character is a "*" at the end.
fnmatch(g, path) ==
    IF g # <<>> /\ Last(g) = "*" THEN IsPrefix(Front(g), path) ELSE g = path

getMatchedServlet(path) ==
    LET hits == {i \in DOMAIN m_globs : fnmatch(m_globs[i][1], path)} IN
    CASE path \in DOMAIN m_datas -> m_datas[path]
      [] path \notin DOMAIN m_datas /\ hits # {} ->
             m_globs[CHOOSE i \in hits : \A j \in hits : i <= j][2]
      [] OTHER -> m_default

\* The application registers and removes servlets.
Register ==
    \/ \E u \in Uris, s \in Servlets : addServlet(u, s)
    \/ \E g \in Globs, s \in Servlets : addGlobServlet(g, s)
    \/ \E u \in Uris : delServlet(u)
    \/ \E g \in Globs : delGlobServlet(g)
    \/ \E s \in Servlets : setDefault(s)

DispatchSpec == InitDispatch /\ [][Register]_dispatchVars

--------------------------------------------------------------------------
\* Whatever was added, replaced and deleted, the vector answers for every glob with the
\* servlet registered last and for a deleted one with none, although deletion erases one
\* entry only (servlet.cc:88): no glob is ever in the vector twice.
GlobsExact ==
    {m_globs[i] : i \in DOMAIN m_globs} = {<<g, registered[g]>> : g \in {h \in Globs : registered[h] # None}}
      /\ \A i, j \in DOMAIN m_globs : m_globs[i][1] = m_globs[j][1] => i = j
=============================================================================
