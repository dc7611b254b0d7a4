---------------------------- MODULE TemplateService ----------------------------
(* The template service, worker/templates/app.py: e-mail templates with a history
   of their versions and a log of their renderings, in three tables of MySQL.

   No handler awaits, and the image starts one process with one event loop: a
   request is one step, and the transaction it opens meets no other.  An error
   before its commit, a crash included, takes the transaction back and leaves no
   trace; an error after it, when the stored row is read again for the answer,
   leaves the change made and its author without an answer.

   A template is its HTML body and a plain text.  The subject, which is checked
   and stored like the body but has no text made from it, names, descriptions,
   categories, variables, metadata and the organization, which no query but that
   of the list looks at, are left out; so are the routes that only read the table
   of templates.  The three tables are those the service makes when it starts on a
   database made by Alembic; docker's init scripts make three with other columns, to
   which no template can be written.  An operator whose comment begins with "Slip:" is a faulty
   variant of the definition after it. *)
EXTENDS Naturals, Sequences

CONSTANTS
    Template,      \* the ids AUTO_INCREMENT can give
    Html,          \* HTML bodies
    BadHtml,       \* those Jinja2 cannot parse
    Words,         \* plain texts an author writes
    None,          \* a field that is left out
    BadText,       \* plain texts, written or made, that Jinja2 cannot parse
    MaxVersions,   \* bound: versions stored, of all templates
    MaxRenders     \* bound: renderings of one template

(* html_to_plaintext: the text follows from the HTML. *)
Made(h) == [kind |-> "made", of |-> h]
Written == [kind : {"written"}, of : Words]
Text == [kind : {"made"}, of : Html] \cup Written

ASSUME ContentAssumption == BadHtml \subseteq Html /\ None \notin Html \cup Written
ASSUME BoundAssumption == MaxVersions \in Nat /\ MaxRenders \in Nat

Row == [html : Html, text : Text, version : Nat \ {0}, copy : BOOLEAN,
        active : BOOLEAN, render_count : 0..MaxRenders]
Version == [version : Nat \ {0}, html : Html, text : Text]
NoRow == [version |-> 0]

VARIABLES
    rows,       \* email_templates: id -> row, deleted ones included
    versions,   \* email_template_versions: id -> its rows in the order of their ids
    log,        \* template_render_log: id -> how many rows
    told,       \* history: the versions authors were shown as stored
    served,     \* history: id -> renderings that were answered
    stored      \* how many versions were stored

vars == <<rows, versions, log, told, served, stored>>

Init ==
    /\ rows = [t \in Template |-> NoRow]
    /\ versions = [t \in Template |-> <<>>]
    /\ log = [t \in Template |-> 0]
    /\ told = {}
    /\ served = [t \in Template |-> 0]
    /\ stored = 0

Exists(t) == rows[t] # NoRow

NewRow(h, x, isCopy) ==
    [html |-> h, text |-> x, version |-> 1, copy |-> isCopy, active |-> TRUE,
     render_count |-> 0]

VersionOf(row) == [version |-> row.version, html |-> row.html, text |-> row.text]

(* The answer shows the row as it is read again after the commit, if it is. *)
Response(t, row) == [template |-> t, row |-> VersionOf(row)]
Answer(t, row) == told' \in {told, told \cup {Response(t, row)}}

StoreVersion ==
    /\ stored < MaxVersions
    /\ stored' = stored + 1

Store(t, row) == rows' = [rows EXCEPT ![t] = row]

(* Slip: the version row is inserted into the history by the next update only. *)
SaveOldVersion(t, row) ==
    versions' = [versions EXCEPT ![t] = IF rows[t] = NoRow THEN @ ELSE Append(@, VersionOf(rows[t]))]

(* Slip: only the newest version row of a template is kept. *)
SaveOnlyVersion(t, row) ==
    versions' = [versions EXCEPT ![t] = <<VersionOf(row)>>]

SaveVersion(t, row) ==
    versions' = [versions EXCEPT ![t] = Append(@, VersionOf(row))]

(* A plain text that is not given is made from the HTML. *)
CreateTemplate(t) ==
    /\ ~Exists(t)
    /\ StoreVersion
    /\ \E h \in Html \ BadHtml, own \in Written \cup {None} :
          LET row == NewRow(h, IF own = None THEN Made(h) ELSE own, FALSE) IN
          /\ Store(t, row)
          /\ SaveVersion(t, row)
          /\ Answer(t, row)
    /\ UNCHANGED <<log, served>>

(* Slip: the plain text is kept when only the HTML changes. *)
MergedKeepingText(row, h, own) ==
    [row EXCEPT !.html = IF h = None THEN @ ELSE h,
                !.text = IF own # None THEN own ELSE @,
                !.version = @ + 1]

(* What a change without some of the fields makes of a row. *)
Merged(row, h, own) ==
    [row EXCEPT !.html = IF h = None THEN @ ELSE h,
                !.text = IF own # None THEN own
                         ELSE IF h # None THEN Made(h)
                         ELSE @,
                !.version = @ + 1]

(* A deleted template is changed like any other, and stays deleted. *)
UpdateTemplate(t) ==
    /\ Exists(t)
    /\ StoreVersion
    /\ \E h \in (Html \ BadHtml) \cup {None}, own \in Written \cup {None} :
          LET row == Merged(rows[t], h, own) IN
          /\ Store(t, row)
          /\ SaveVersion(t, row)
          /\ Answer(t, row)
    /\ UNCHANGED <<log, served>>

DeleteTemplate(t) ==
    /\ Exists(t)
    /\ rows[t].active
    /\ Store(t, [rows[t] EXCEPT !.active = FALSE])
    /\ UNCHANGED <<versions, log, told, served, stored>>

(* Slip: the rendering is counted before the text turns out not to parse, and the
   count is committed. *)
RenderCountedFirst(t, format) ==
    /\ Exists(t)
    /\ rows[t].active
    /\ rows[t].render_count < MaxRenders
    /\ Store(t, [rows[t] EXCEPT !.render_count = @ + 1])
    /\ IF format = "html" \/ rows[t].text \notin BadText
       THEN /\ log' = [log EXCEPT ![t] = @ + 1]
            /\ served' \in {served, [served EXCEPT ![t] = @ + 1]}
       ELSE UNCHANGED <<log, served>>
    /\ UNCHANGED <<versions, told, stored>>

(* The HTML was parsed when it was stored; the plain text never was. *)
RenderTemplate(t, format) ==
    /\ Exists(t)
    /\ rows[t].active
    /\ format = "html" \/ rows[t].text \notin BadText
    /\ rows[t].render_count < MaxRenders
    /\ Store(t, [rows[t] EXCEPT !.render_count = @ + 1])
    /\ log' = [log EXCEPT ![t] = @ + 1]
    /\ served' \in {served, [served EXCEPT ![t] = @ + 1]}
    /\ UNCHANGED <<versions, told, stored>>

(* The copy of a template starts at version 1, and no version row is written. *)
DuplicateTemplate(t, new) ==
    /\ Exists(t)
    /\ ~Exists(new)
    /\ StoreVersion
    /\ LET row == NewRow(rows[t].html, rows[t].text, TRUE) IN
          /\ Store(new, row)
          /\ Answer(new, row)
    /\ UNCHANGED <<versions, log, served>>

Next ==
    \E t \in Template :
        \/ CreateTemplate(t)
        \/ UpdateTemplate(t)
        \/ DeleteTemplate(t)
        \/ \E format \in {"html", "plaintext"} : RenderTemplate(t, format)
        \/ \E new \in Template : DuplicateTemplate(t, new)

Spec == Init /\ [][Next]_vars

-------------------------------------------------------------------------------
(* What the reading routes tell *)

(* get_template_versions, oldest first *)
VersionNumbers(t) == [i \in 1..Len(versions[t]) |-> versions[t][i].version]

(* get_template_stats, the days added up *)
Stats(t) == [total_renders |-> rows[t].render_count, daily_renders |-> log[t]]

-------------------------------------------------------------------------------
(* Properties *)

(* Every variable keeps its type, and what is stored can be parsed but for the
   plain text (the checks of create_template and update_template). *)
TypeOK ==
    /\ rows \in [Template -> Row \cup {NoRow}]
    /\ \A t \in Template : Exists(t) => rows[t].html \notin BadHtml
    /\ versions \in [Template -> Seq(Version)]
    /\ log \in [Template -> Nat]
    /\ told \in SUBSET [template : Template, row : Version]
    /\ served \in [Template -> Nat]
    /\ stored \in 0..MaxVersions

(* The first version in the history of a template. *)
FirstVersion(t) == IF rows[t].copy THEN 2 ELSE 1

(* The history of a template has every version up to the present one once and in
   order, and its last row is the present content: what update_template stores in
   two tables stays together.  A copy's history begins with its first change. *)
HistoryTells ==
    \A t \in Template : Exists(t) =>
        /\ Len(versions[t]) = rows[t].version + 1 - FirstVersion(t)
        /\ \A i \in 1..Len(versions[t]) :
              VersionNumbers(t)[i] = FirstVersion(t) + i - 1
        /\ versions[t] # <<>> => versions[t][Len(versions[t])] = VersionOf(rows[t])

(* The plain text of a template, and of every version in its history, is an
   author's own or made from the HTML beside it, never from an older one,
   whichever fields the changes left out (the merge in update_template). *)
TextsAgree ==
    \A t \in Template : Exists(t) =>
        \A v \in {VersionOf(rows[t])} \cup {versions[t][i] : i \in 1..Len(versions[t])} :
            v.text \in Written \cup {Made(v.html)}

(* A version that was shown to its author as stored is the template's present one
   or in its history, unchanged, whatever happened to the answers of later
   requests; except the first version of a copy, which its first change erases. *)
ToldIsKept ==
    \A r \in told :
        \/ r.row = VersionOf(rows[r.template])
        \/ \E i \in 1..Len(versions[r.template]) : versions[r.template][i] = r.row
        \/ rows[r.template].copy /\ r.row.version = 1

(* The two figures get_template_stats puts side by side agree, and count every
   rendering that was answered. *)
StatsAgree ==
    \A t \in Template : Exists(t) =>
        /\ Stats(t).total_renders = Stats(t).daily_renders
        /\ served[t] <= Stats(t).total_renders
=============================================================================
