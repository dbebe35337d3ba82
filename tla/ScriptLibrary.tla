----------------------------- MODULE ScriptLibrary -----------------------------
(***************************************************************************)
(* The canonical scripts, their revisions and the suggestions of attendants*)
(* (services/api/src/core/script-library/script-library.service.ts).       *)
(*                                                                         *)
(* Whatever changes a script writes its row, then looks the last revision  *)
(* up, then adds the next with what it wrote; accepting a suggestion does  *)
(* all of that before it writes the suggestion.  Nothing is a transaction, *)
(* and every handler may find others at each of these steps.               *)
(*                                                                         *)
(* A script is its title in one category, which it keeps.  Categories,     *)
(* packs, counts of uses, due dates and personal scripts are left out.     *)
(***************************************************************************)
EXTENDS Naturals, FiniteSets

CONSTANTS
    Title,          \* scripts there may be
    NoTitle,
    Body,           \* what a script may say
    NoBody,
    Suggestion,     \* bound: suggestions
    NoSuggestion,
    Curator,        \* bound: handlers at work
    MaxRevisions    \* bound: revisions when a handler begins

ASSUME LibraryAssumption ==
    /\ NoTitle \notin Title /\ NoBody \notin Body /\ NoSuggestion \notin Suggestion
    /\ MaxRevisions \in Nat

VARIABLES
    script,         \* OperationalScript
    edition,        \* OperationalScriptRevision
    suggestion,     \* OperationalScriptSuggestion
    made,           \* history: scripts made or changed for each suggestion
    shelf,          \* what each handler has written and is about to write
    tangled,        \* history: scripts written by two handlers at once since they
                    \* were last written by one, or left by one that died
    split           \* history: suggestions decided twice, or by half

libraryVars == <<script, edition, suggestion, made, shelf, tangled, split>>

ScriptStatus == {"DRAFT", "VALIDATED", "OBSOLETE"}
Script == [text : Body, status : ScriptStatus]
NoScript == [text |-> NoBody, status |-> "none"]

Revision == [script : Title, version : Nat \ {0}, text : Body, status : ScriptStatus]

\* A suggestion to change a script names it.
Suggested == [status : {"SUGGESTED", "ACCEPTED", "MERGED", "REJECTED"}, about : Title \cup {NoTitle},
              text : Body]
Unsaid == [status |-> "none", about |-> NoTitle, text |-> NoBody]

Handling == [at : {"judging", "written", "numbered", "deciding"},
             title : Title \cup {NoTitle}, text : Body \cup {NoBody}, status : ScriptStatus \cup {"none"},
             last : Nat, for : Suggestion \cup {NoSuggestion},
             decision : {"none", "ACCEPTED", "MERGED", "REJECTED"}]
NotBusy == [at |-> "free"]

LibraryInit ==
    /\ script = [s \in Title |-> NoScript]
    /\ edition = {}
    /\ suggestion = [q \in Suggestion |-> Unsaid]
    /\ made = [q \in Suggestion |-> {}]
    /\ shelf = [w \in Curator |-> NotBusy]
    /\ tangled = {}
    /\ split = {}

----------------------------------------------------------------------------
Shelves(w, at, s, row, last, q, d) ==
    shelf' = [shelf EXCEPT ![w] = [at |-> at, title |-> s, text |-> row.text,
                status |-> row.status, last |-> last, for |-> q, decision |-> d]]
Frees(w) == shelf' = [shelf EXCEPT ![w] = NotBusy]

Begins(w) == shelf[w] = NotBusy /\ Cardinality(edition) < MaxRevisions

\* Between the row of a script and its revision.
Between(w, s) == shelf[w] # NotBusy /\ shelf[w].at \in {"written", "numbered"} /\ shelf[w].title = s

\* The row of a script, whatever it was; what is returned goes into the revision.
Writes(w, s, row, q, d) ==
    /\ script' = [script EXCEPT ![s] = row]
    /\ tangled' = IF \E o \in Curator \ {w} : Between(o, s)
                  THEN tangled \cup {s} ELSE tangled \ {s}
    /\ Shelves(w, "written", s, row, 0, q, d)

\* createOperationalScript
CreateScript(w) == \E s \in Title, t \in Body, status \in ScriptStatus :
    /\ Begins(w) /\ script[s] = NoScript
    /\ Writes(w, s, [text |-> t, status |-> status], NoSuggestion, "none")
    /\ UNCHANGED <<edition, suggestion, made, split>>

\* updateOperationalScript; and, with the text it has, validateOperationalScript,
\* recertifyOperationalScript and obsoleteOperationalScript.
UpdateScript(w) == \E s \in Title, t \in Body, status \in ScriptStatus :
    /\ Begins(w) /\ script[s] # NoScript
    /\ Writes(w, s, [text |-> t, status |-> status], NoSuggestion, "none")
    /\ UNCHANGED <<edition, suggestion, made, split>>

\* restoreOperationalScriptRevision
RestoreEdition(w) == \E r \in edition :
    /\ Begins(w)
    /\ Writes(w, r.script, [text |-> r.text, status |-> r.status], NoSuggestion, "none")
    /\ UNCHANGED <<edition, suggestion, made, split>>

\* createOperationalScriptSuggestion
Suggest(q) == \E about \in Title \cup {NoTitle}, t \in Body :
    /\ suggestion[q] = Unsaid
    /\ about # NoTitle => script[about] # NoScript
    /\ suggestion' = [suggestion EXCEPT ![q] =
            [status |-> "SUGGESTED", about |-> about, text |-> t]]
    /\ UNCHANGED <<script, edition, made, shelf, tangled, split>>

\* decideOperationalScriptSuggestion reads the suggestion,
Judge(w) == \E q \in Suggestion, d \in {"ACCEPTED", "MERGED", "REJECTED"} :
    /\ Begins(w) /\ suggestion[q].status = "SUGGESTED"
    /\ d = "MERGED" => suggestion[q].about # NoTitle
    /\ Shelves(w, IF d = "REJECTED" THEN "deciding" ELSE "judging", suggestion[q].about,
               NoScript, 0, q, d)
    /\ UNCHANGED <<script, edition, suggestion, made, tangled, split>>

\* makes a new script of it, unless there is one of that title, or changes the one
\* it is about, with the text suggested or another,
Adopt(w) ==
    /\ shelf[w].at = "judging"
    /\ LET q == shelf[w].for IN
       \E s \in Title, t \in Body :
            IF shelf[w].decision = "ACCEPTED" /\ script[s] # NoScript
            THEN Frees(w) /\ UNCHANGED <<script, made, tangled>>
            ELSE /\ shelf[w].decision = "MERGED" => s = shelf[w].title
                 /\ Writes(w, s, [text |-> t, status |-> "DRAFT"], q, shelf[w].decision)
                 /\ made' = [made EXCEPT ![q] = made[q] \cup {s}]
    /\ UNCHANGED <<edition, suggestion, split>>

\* and writes its status.
WriteDecision(w) ==
    /\ shelf[w].at = "deciding"
    /\ LET q == shelf[w].for IN
       /\ suggestion' = [suggestion EXCEPT ![q] = [status |-> shelf[w].decision,
              about |-> suggestion[q].about, text |-> suggestion[q].text]]
       /\ split' = IF suggestion[q].status = "SUGGESTED" THEN split ELSE split \cup {q}
    /\ Frees(w)
    /\ UNCHANGED <<script, edition, made, tangled>>

\* Mutant of Versions: revisions are counted over all scripts.
VersionsOfAll(s) == {r.version : r \in edition}

Versions(s) == {r.version : r \in {x \in edition : x.script = s}}

\* createRevision looks the last one up
ReadLast(w) ==
    /\ shelf[w].at = "written"
    /\ LET k == shelf[w] IN
       \E last \in Versions(k.title) \cup {0} :
         /\ \A v \in Versions(k.title) : v <= last
         /\ Shelves(w, "numbered", k.title, [text |-> k.text, status |-> k.status], last,
                    k.for, k.decision)
    /\ UNCHANGED <<script, edition, suggestion, made, tangled, split>>

\* and adds the next: script and version are unique, and where another handler was
\* faster the request ends here.
AddEdition(w) ==
    /\ shelf[w].at = "numbered"
    /\ LET k == shelf[w] IN
       IF \E r \in edition : r.script = k.title /\ r.version = k.last + 1
       THEN /\ Frees(w)
            /\ split' = split \cup ({k.for} \ {NoSuggestion})
            /\ UNCHANGED edition
       ELSE /\ edition' = edition \cup {[script |-> k.title, version |-> k.last + 1,
                                         text |-> k.text, status |-> k.status]}
            /\ IF k.for = NoSuggestion THEN Frees(w)
               ELSE Shelves(w, "deciding", k.title, NoScript, 0, k.for, k.decision)
            /\ UNCHANGED split
    /\ UNCHANGED <<script, suggestion, made, tangled>>

\* A handler dies, or the database fails it, after its first write.
CuratorDies(w) ==
    /\ shelf[w].at \in {"written", "numbered", "deciding"}
    /\ tangled' = IF shelf[w].at = "deciding" THEN tangled ELSE tangled \cup {shelf[w].title}
    /\ split' = IF shelf[w].decision = "REJECTED" THEN split
                ELSE split \cup ({shelf[w].for} \ {NoSuggestion})
    /\ Frees(w)
    /\ UNCHANGED <<script, edition, suggestion, made>>

LibraryNext ==
    \/ \E w \in Curator :
         \/ CreateScript(w) \/ UpdateScript(w) \/ RestoreEdition(w)
         \/ Judge(w) \/ Adopt(w) \/ WriteDecision(w)
         \/ ReadLast(w) \/ AddEdition(w) \/ CuratorDies(w)
    \/ \E q \in Suggestion : Suggest(q)

LibrarySpec == LibraryInit /\ [][LibraryNext]_libraryVars

-----------------------------------------------------------------------------
(* Properties                                                              *)

\* Rows and handlers have the shape the code gives them.
LibraryTypeOK ==
    /\ script \in [Title -> Script \cup {NoScript}]
    /\ edition \in SUBSET Revision
    /\ suggestion \in [Suggestion -> Suggested \cup {Unsaid}]
    /\ made \in [Suggestion -> SUBSET Title]
    /\ shelf \in [Curator -> Handling \cup {NotBusy}]
    /\ tangled \in SUBSET Title
    /\ split \in SUBSET Suggestion

\* However writers race for the next number, fail and die, the revisions of a
\* script are numbered without a gap, and no number is given twice.
NumberedWithoutGap ==
    /\ \A r \in edition : \A v \in 1 .. r.version - 1 :
         \E o \in edition : o.script = r.script /\ o.version = v
    /\ \A r, o \in edition : r.script = o.script /\ r.version = o.version => r = o

\* The last revision of a script is what it says, unless two handlers tangled on it
\* or one died: then until it is next written.
LastEditionIsServed ==
    \A s \in Title \ tangled :
        script[s] # NoScript /\ (\A w \in Curator : ~Between(w, s)) =>
            \E r \in edition :
                /\ r.script = s
                /\ \A o \in edition : o.script = s => o.version <= r.version
                /\ r.text = script[s].text /\ r.status = script[s].status

\* A suggestion is taken up exactly when a script was made or changed for it, and
\* for one script only.
SuggestionsAnswered ==
    \A q \in Suggestion \ split :
        (\A w \in Curator : shelf[w] # NotBusy => shelf[w].for # q) =>
            /\ suggestion[q].status \in {"ACCEPTED", "MERGED"} <=> made[q] # {}
            /\ \A s \in made[q] : made[q] = {s}

\* The library is well formed, keeps its history and answers its suggestions.
LibraryIsWhole ==
    LibraryTypeOK /\ NumberedWithoutGap /\ LastEditionIsServed /\ SuggestionsAnswered
=============================================================================
