----------------------------- MODULE SearchView -----------------------------
(***************************************************************************)
(* The search view: a directory whose loader runs the query that is set    *)
(* while a shell reads a path like /@search?q=...; the loader reads every  *)
(* file, those with content providers too, and a provider is code of the   *)
(* host that may raise or call the file system again, and so search again. *)
(* The calls under way are a stack.  A text is the set of the queries that *)
(* find it; the tree of results is flat, and policies and views are open.  *)
(* The providers that are read by a snapshot or for an index only answer.  *)
(***************************************************************************)
EXTENDS Naturals, Sequences

Seqs == INSTANCE SequencesExt
Sets == INSTANCE FiniteSetsExt

CONSTANTS
    File,       \* the files outside the view
    Provided,   \* those that start with a content provider
    Query,      \* the queries
    NoQuery,    \* no query is set
    Text,       \* the texts, each the set of the queries that find it
    Indexing,   \* TRUE when the host may turn the full text index on
    Restoring,  \* TRUE when the host takes a snapshot and restores it
    MaxCalls    \* bound: searches and loads under way

ASSUME SearchAssumption ==
    /\ Provided \subseteq File
    /\ NoQuery \notin Query
    /\ {} \in Text /\ Text \subseteq SUBSET Query
    /\ MaxCalls \in Nat

VARIABLES
    text,       \* what reading a file gives
    live,       \* the files that have a content provider
    indexOn,    \* _full_text_index is not None
    index,      \* FullTextIndex: text by place
    context,    \* the query of _search_view_context
    view,       \* the children of the view, by the path they stand for
    loaded,     \* _loaded of the view
    loader,     \* the view has its loader
    calls,      \* the searches and loads under way, the outermost first
    snap        \* the last snapshot

vars == <<text, live, indexOn, index, context, view, loaded, loader, calls, snap>>
tree == <<text, live, indexOn, index>>

\* A path outside the view, or the path of a result in it.
Place == {"file", "view"} \X File
Outside == {"file"} \X File

\* A child of the view: the query that its text answers, or none when a host
\* wrote it.
Child == {c \in [present: BOOLEAN, query: Query \cup {NoQuery}, text: Text] :
            c.query # NoQuery => c.query \in c.text}
NoChild == [present |-> FALSE, query |-> NoQuery, text |-> {}]
NoResults == [e \in Place |-> NoChild]

Call == [op: {"search", "load"}, query: Query \cup {NoQuery},
         previous: Query \cup {NoQuery}, calm: BOOLEAN,
         todo: SUBSET File, found: [Place -> Child], running: SUBSET File]

NoSnapshot == [taken |-> FALSE, text |-> [f \in File |-> {}], view |-> NoResults]

SearchTypeOK ==
    /\ text \in [File -> Text]
    /\ live \subseteq Provided
    /\ indexOn \in BOOLEAN
    /\ index \in [Place -> Text]
    /\ context \in Query \cup {NoQuery}
    /\ view \in [Place -> Child]
    /\ loaded \in BOOLEAN
    /\ loader \in BOOLEAN
    /\ calls \in Seq(Call) /\ Len(calls) <= MaxCalls
    /\ snap \in [taken: BOOLEAN, text: [File -> Text], view: [Place -> Child]]

SearchInit ==
    /\ text = [f \in File |-> {}]
    /\ live = Provided
    /\ indexOn = FALSE
    /\ index = [e \in Place |-> {}]
    /\ context = NoQuery
    /\ view = NoResults
    /\ loaded = FALSE
    /\ loader = TRUE
    /\ calls = << >>
    /\ snap = NoSnapshot

-----------------------------------------------------------------------------
(* The stack. *)

Top == Seqs!Last(calls)

\* A provider runs, and with it code of the host.
ProviderRuns == calls # << >> /\ Top.running # {}
HostRuns == calls = << >> \/ ProviderRuns

\* Where an exception that leaves the calls s ends: in a provider that runs, or
\* in the host.
Unwound(s) == SubSeq(s, 1, Sets!Max({0} \cup {i \in DOMAIN s : s[i].running # {}}))

\* Slip: the context is put back only when nothing was raised.
ContextKept(s, t) == context

\* search_view_context puts the previous query back, whatever was raised: the
\* query when the calls s are cut to t.
ContextAfter(s, t) ==
    LET left == {i \in DOMAIN s : i > Len(t) /\ s[i].op = "search"}
    IN  IF left = {} THEN context ELSE s[Sets!Min(left)].previous

\* Something changed that the searches under way may not see.
Disturbed(s) == [i \in DOMAIN s |-> [s[i] EXCEPT !.calm = FALSE]]

SearchCall(q, previous) ==
    [op |-> "search", query |-> q, previous |-> previous, calm |-> TRUE,
     todo |-> {}, found |-> NoResults, running |-> {}]

\* Slip: a file counts as a result whether or not a line matched.
FoundUnmatched(q, t) == [present |-> TRUE, query |-> q, text |-> t]

\* A file that q finds is a result.
Found(q, t) == IF q \in t THEN [present |-> TRUE, query |-> q, text |-> t] ELSE NoChild

\* Slip: the index answers for the view itself as well.
IndexedEverywhere(q) == [e \in Place |-> Found(q, index[e])]

\* search with an index leaves the paths of the view out.
Indexed(q) == [e \in Place |-> IF e \in Outside THEN Found(q, index[e]) ELSE NoChild]

\* _search_view_provider: without an index every file is still to be read; no
\* query, no results.
LoadCall(q) ==
    [op |-> "load", query |-> q, previous |-> NoQuery, calm |-> TRUE,
     todo |-> IF q = NoQuery \/ indexOn THEN {} ELSE File,
     found |-> IF q # NoQuery /\ indexOn THEN Indexed(q) ELSE NoResults,
     running |-> {}]

-----------------------------------------------------------------------------
(* Searching and listing. *)

\* Slip: the children stay.
ResetNothing == view

\* _reset_directory: the view has no children and is loaded anew.
Reset == NoResults

\* A read of /@search?q=...: the context, then _reset_directory, then the read,
\* which loads the view.  Without a loader it counts as loaded at once.
SearchPath(q) ==
    LET s == Append(Disturbed(calls), SearchCall(q, context))
    IN  /\ HostRuns /\ Len(calls) + 2 <= MaxCalls
        /\ context' = q
        /\ view' = Reset
        /\ loaded' = ~loader
        /\ calls' = IF loader THEN Append(s, LoadCall(q)) ELSE s
        /\ UNCHANGED <<tree, loader, snap>>

\* ls /@search, without a query.
List ==
    /\ HostRuns /\ ~loaded /\ Len(calls) < MaxCalls
    /\ calls' = Append(calls, LoadCall(context))
    /\ UNCHANGED <<tree, context, view, loaded, loader, snap>>

SetTop(c) == [calls EXCEPT ![Len(calls)] = c]

Searching == calls # << >> /\ Top.running = {} /\ Top.op = "load"

\* The load c calls the provider of f, or has the text t of f.
Asking(c, f) == [c EXCEPT !.todo = @ \ {f}, !.running = {f}]
Answered(c, f, t) ==
    [c EXCEPT !.todo = @ \ {f}, !.running = {},
              !.found[<<"file", f>>] = Found(c.query, t)]

\* node.read of the next file: a text, or a provider that is called.
Read(f) ==
    /\ Searching /\ f \in Top.todo
    /\ calls' = SetTop(IF f \in live THEN Asking(Top, f) ELSE Answered(Top, f, text[f]))
    /\ UNCHANGED <<tree, context, view, loaded, loader, snap>>

\* The provider of a file that is being read gives its text, or any text when the
\* file was written meanwhile.
ProviderReturns(f, t) ==
    /\ ProviderRuns /\ f \in Top.running
    /\ f \in live => t = text[f]
    /\ calls' = SetTop(Answered(Top, f, t))
    /\ UNCHANGED <<tree, context, view, loaded, loader, snap>>

\* ProviderError ends the search and the load, which is tried again next time.
ProviderRaises ==
    LET t == Unwound(Seqs!Front(calls))
    IN  /\ ProviderRuns
        /\ calls' = t
        /\ context' = ContextAfter(calls, t)
        /\ UNCHANGED <<tree, view, loaded, loader, snap>>

\* ensure_loaded skips the names that are there when the loader returns.
Filled(found) == [e \in Place |-> IF view[e].present THEN view[e] ELSE found[e]]

FinishLoad ==
    /\ Searching /\ Top.todo = {}
    /\ view' = Filled(Top.found)
    /\ loaded' = TRUE
    /\ calls' = Seqs!Front(calls)
    /\ UNCHANGED <<tree, context, loader, snap>>

\* The read of a search path is done and its context ends.
SearchReturns ==
    /\ calls # << >> /\ Top.op = "search"
    /\ calls' = Seqs!Front(calls)
    /\ context' = Top.previous
    /\ UNCHANGED <<tree, view, loaded, loader, snap>>

-----------------------------------------------------------------------------
(* The tree around the view. *)

\* write_file outside the view: the provider goes, the index follows.
WriteFile(f, t) ==
    /\ HostRuns
    /\ text' = [text EXCEPT ![f] = t]
    /\ live' = live \ {f}
    /\ index' = IF indexOn THEN [index EXCEPT ![<<"file", f>>] = t] ELSE index
    /\ calls' = Disturbed(calls)
    /\ UNCHANGED <<indexOn, context, view, loaded, loader, snap>>

\* write_file at the path of a result, in a view that is loaded.
WriteResult(f, t) ==
    /\ HostRuns /\ loaded
    /\ view' = [view EXCEPT ![<<"file", f>>] =
                  [present |-> TRUE, query |-> NoQuery, text |-> t]]
    /\ index' = IF indexOn THEN [index EXCEPT ![<<"view", f>>] = t] ELSE index
    /\ calls' = Disturbed(calls)
    /\ UNCHANGED <<text, live, indexOn, context, loaded, loader, snap>>

\* What a provider would give changes, outside sandfs.
WorldChanges(f, t) ==
    /\ f \in live
    /\ text' = [text EXCEPT ![f] = t]
    /\ calls' = Disturbed(calls)
    /\ UNCHANGED <<live, indexOn, index, context, view, loaded, loader, snap>>

\* _rebuild_index: the files outside the view.
Texts(t) == [e \in Place |-> IF e \in Outside THEN t[e[2]] ELSE {}]

EnableIndex ==
    /\ Indexing /\ HostRuns
    /\ indexOn' = TRUE
    /\ index' = Texts(text)
    /\ calls' = Disturbed(calls)
    /\ UNCHANGED <<text, live, context, view, loaded, loader, snap>>

\* A snapshot reads every file and keeps the text, that of the results as well;
\* it loads the view first.  Bound: one snapshot.
Snapshot ==
    /\ Restoring /\ ~snap.taken /\ calls = << >> /\ loaded
    /\ snap' = [taken |-> TRUE, text |-> text, view |-> view]
    /\ UNCHANGED <<tree, context, view, loaded, loader, calls>>

\* The restored nodes have neither providers nor loaders.
Restore ==
    /\ calls = << >> /\ snap.taken
    /\ text' = snap.text
    /\ live' = {}
    /\ view' = snap.view
    /\ loaded' = TRUE
    /\ loader' = FALSE
    /\ index' = IF indexOn THEN Texts(snap.text) ELSE index
    /\ UNCHANGED <<indexOn, context, calls, snap>>

SearchNext ==
    \/ \E q \in Query : SearchPath(q)
    \/ List
    \/ \E f \in File : Read(f)
    \/ ProviderRaises
    \/ FinishLoad
    \/ SearchReturns
    \/ \E f \in File, t \in Text :
         ProviderReturns(f, t) \/ WriteFile(f, t) \/ WriteResult(f, t) \/ WorldChanges(f, t)
    \/ EnableIndex
    \/ Snapshot
    \/ Restore

SearchSpec == SearchInit /\ [][SearchNext]_vars

-----------------------------------------------------------------------------
(* What a search through the view can rely on. *)

\* The query that is set is that of the innermost search path under way, and
\* none when there is none, however providers raise, call back and are caught
\* (search_view_context).
ContextFollowsCalls ==
    LET searches == {i \in DOMAIN calls : calls[i].op = "search"}
    IN  context = IF searches = {} THEN NoQuery ELSE calls[Sets!Max(searches)].query

\* What a search path shows answers its query, file by file, from the texts that
\* are in the tree, although the view held the results of another query before
\* and although its loads may have failed: as long as no provider wrote files or
\* searched as well while it was loading.  An index answers with the text that a
\* content provider gave when the index was built.  A tree that was restored has
\* no loader, and its search view shows nothing (vfs.py:788).
SearchPathIsFresh ==
    [][ SearchReturns /\ Top.calm =>
        \A f \in File :
            LET seen == IF indexOn THEN index[<<"file", f>>] ELSE text[f]
            IN  /\ f \notin live => seen = text[f]
                /\ view[<<"file", f>>] =
                     IF loader THEN Found(Top.query, seen) ELSE NoChild ]_vars

\* No result stands for another result, also when results were written to and
\* entered the index with their new text (search leaves the prefix of the view
\* out).
ResultsComeFromOutside == \A f \in File : ~view[<<"view", f>>].present
=============================================================================
