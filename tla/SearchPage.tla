------------------------------ MODULE SearchPage ------------------------------
(***************************************************************************)
(* The search page of the browser: search.js, the grid of disk.js, the     *)
(* commands of context.js and the scrolling of scroll.js.                  *)
(*                                                                         *)
(* The page is one thread: a handler or a timer runs to its end.  What     *)
(* interleaves is the user (a key goes down, which changes the box, and    *)
(* comes up later, which runs search_if_change), the timers the handlers   *)
(* arm, and the server, which may die and be started again.  Delays are   *)
(* not modelled: a pending timer may fire at any later step.               *)
(*                                                                         *)
(* The file options of a search (cef.order, file_type, caze, personal,     *)
(* dire, offline) are one value, opts; a handler that sets one of them     *)
(* picks any value.  The answer to a query is named by the query and the   *)
(* options; its i-th file is <<query, options, i>>.  Messages, pictures,   *)
(* marks of the matching letters and menus are left out; messages are in   *)
(* Dialogs.                                                                *)
(***************************************************************************)
EXTENDS Naturals, Sequences, FiniteSets

CONSTANTS
    Texts,      \* queries the user may enter, without blanks around them
    Star,       \* the query "*" that the page enters by itself
    Opts,       \* values of the search options
    Hits,       \* number of files the service finds for each text
    FirstRows,  \* rows drawn at once, 200 in the code
    PageRow,    \* rows added by a scroll, 100 in the code
    MaxRows,    \* files the service returns at most, 1000 in the code
    MaxPageEnd, \* bound on cur_page_end, to keep the model finite
    MaxTimers   \* bound on the pending timers of one kind

ASSUME PageAssumption ==
    /\ Star \in Texts
    /\ Texts \cap {"", " "} = {}
    /\ Opts # {}
    /\ Hits \in [Texts -> Nat]
    /\ FirstRows \in Nat \ {0} /\ PageRow \in Nat \ {0} /\ MaxRows \in Nat
    /\ MaxPageEnd \in Nat /\ FirstRows <= MaxPageEnd
    /\ MaxTimers \in Nat

VARIABLES
    box,              \* the text of #search
    key,              \* the key that is down
    cur_search, opts,
    view,             \* whether #history_area or #tabs is shown
    loading,          \* whether #loading is visible
    files,            \* the answer eval'ed last
    rows,             \* the rows of #maintable: their id and their file
    sel,              \* selarrrow, the ids of the selected rows
    cur_page_end, first_grid,
    stats,            \* the query whose numbers the tabs show
    search_timeout, stat_timeout, highlight_timeout,
    history_timeout,  \* pending history_parse timers
    refresh_timeout,  \* pending refresh timers of online_db and offline_db
    server,           \* whether the service answers
    heard             \* history variable: the text last entered was searched
                      \* and no call has failed since

input   == <<box, key>>
options == <<cur_search, opts>>
grid    == <<files, rows, sel, cur_page_end, first_grid>>
timers  == <<search_timeout, stat_timeout, highlight_timeout>>
others  == <<history_timeout, refresh_timeout>>
vars    == <<input, options, view, loading, grid, stats, timers, others,
             server, heard>>

Boxes == Texts \cup {"", " "}

-----------------------------------------------------------------------------
\* A variable that holds the handle of a timer: n timers are pending, and own
\* says whether the handle is the one armed last.  Timers whose handle was
\* overwritten stay pending and cannot be cleared.

NoTimer  == [n |-> 0, own |-> FALSE]
Arm(t)   == [n |-> t.n + 1, own |-> TRUE]
Clear(t) == IF t.own THEN [n |-> t.n - 1, own |-> FALSE] ELSE t
Fire(t)  == [n |-> t.n - 1, own |-> t.own /\ t.n > 1]

trim(b) == IF b = " " THEN "" ELSE b

\* (Mutant) only asks whether one of the two texts is missing
ChangedEmptiness == (trim(box) = "") # (cur_search = "")

changed == trim(box) # cur_search

\* Every handler that wants a search clears the pending one and arms another.
arm_search == Arm(Clear(search_timeout))

\* An answer: the service cuts it at MaxRows, and search_and_parse then adds
\* a row that says so.
NoFiles == [q |-> "", o |-> CHOOSE o \in Opts : TRUE, n |-> 0]
\* (Mutant) the row is added without the cut
AnswerUncut(q, o) == [q |-> q, o |-> o, n |-> Hits[q] + 1]

Answer(q, o) ==
    [q |-> q, o |-> o, n |-> IF Hits[q] >= MaxRows THEN MaxRows + 1 ELSE Hits[q]]
File(fs, i) == <<fs.q, fs.o, i>>

Smaller(a, b) == IF a < b THEN a ELSE b

-----------------------------------------------------------------------------
\* The grid.

\* (Mutant) the rows count from the second file
DrawnFromSecond(fs) ==
    [i \in 1..Smaller(FirstRows, fs.n) |-> [id |-> i, file |-> File(fs, i + 1)]]

\* view_grid: the first rows of the answer replace the rows and the
\* selection.  cur_page_end keeps its value.
Drawn(fs) == [i \in 1..Smaller(FirstRows, fs.n) |-> [id |-> i, file |-> File(fs, i)]]

view_grid(fs) ==
    /\ rows' = Drawn(fs)
    /\ sel' = {}
    /\ first_grid' = FALSE

\* grid_event binds the handlers of the new rows and arms highlight, over the
\* handle of a highlight that may be pending.
grid_event(t) == Arm(t)

\* (Mutant) the slice starts at the last row drawn
AppendedOverlapping ==
    LET m    == Smaller(cur_page_end + PageRow, files.n)
        more == [k \in 1..(IF m > cur_page_end THEN m - cur_page_end ELSE 0) |->
                    [id |-> cur_page_end + k, file |-> File(files, cur_page_end + k - 1)]]
    IN  rows \o more

\* grid_add_files: the slice that starts at cur_page_end goes below the rows,
\* and every row below position cur_page_end takes its position as id.
Appended ==
    LET m    == Smaller(cur_page_end + PageRow, files.n)
        more == [k \in 1..(IF m > cur_page_end THEN m - cur_page_end ELSE 0) |->
                    [id |-> 0, file |-> File(files, cur_page_end + k)]]
        all  == rows \o more
    IN  [k \in DOMAIN all |->
            IF k > cur_page_end THEN [all[k] EXCEPT !.id = k] ELSE all[k]]

\* A scroll to the end of the page.  Before there is a grid addRowData throws.
grid_add_files ==
    /\ view = "tabs" /\ ~first_grid
    /\ cur_page_end + PageRow <= MaxPageEnd
    /\ highlight_timeout.n < MaxTimers
    /\ rows' = Appended
    /\ cur_page_end' = cur_page_end + PageRow
    /\ highlight_timeout' = grid_event(highlight_timeout)
    /\ UNCHANGED <<input, options, view, loading, files, sel, first_grid,
                   stats, search_timeout, stat_timeout, others, server, heard>>

has_row_selected(id) == id \in sel

grid_batch_unselect == {}

\* A click on a row toggles it; a right click on a row that is not selected
\* selects that row alone.
onSelectRow(id) ==
    /\ view = "tabs"
    /\ sel' = IF has_row_selected(id) THEN sel \ {id} ELSE sel \cup {id}
    /\ UNCHANGED <<input, options, view, loading, files, rows, cur_page_end,
                   first_grid, stats, timers, others, server, heard>>

onContextMenu(id) ==
    /\ view = "tabs" /\ ~has_row_selected(id)
    /\ sel' = grid_batch_unselect \cup {id}
    /\ UNCHANGED <<input, options, view, loading, files, rows, cur_page_end,
                   first_grid, stats, timers, others, server, heard>>

\* The files a batch command is given: the ids of the selected rows count in
\* files, whatever the rows show.
grid_selectd_files == {File(files, id) : id \in sel}

\* The service did not answer: the grid is emptied and the service started.
restart_when_error ==
    /\ files' = NoFiles
    /\ view_grid(NoFiles)
    /\ heard' = FALSE

-----------------------------------------------------------------------------
\* Starting a search.

\* searchf(v): asks the service for the state of the scan, which throws when
\* the service does not answer, and arms the search.
searchf(v) ==
    IF trim(v) # "" /\ server
    THEN /\ cur_search' = trim(v)
         /\ view' = "tabs"
         /\ loading' = TRUE
         /\ search_timeout' = arm_search
         /\ stat_timeout' = Clear(stat_timeout)
         /\ highlight_timeout' = Clear(highlight_timeout)
         /\ stats' = ""
         /\ heard' = TRUE
    ELSE /\ heard' = FALSE
         /\ UNCHANGED <<cur_search, view, loading, timers, stats>>

\* load_history: shows #loading until history_parse has run.
load_history ==
    /\ loading' = TRUE
    /\ history_timeout' = history_timeout + 1

\* refresh: searches the text of the box, or shows the history.
refresh ==
    IF box # ""
    THEN searchf(box) /\ UNCHANGED history_timeout
    ELSE /\ history_timeout < MaxTimers
         /\ load_history
         /\ UNCHANGED <<cur_search, view, timers, stats, heard>>

-----------------------------------------------------------------------------
\* The user.

\* A key goes down; the box may change.  One key is down at a time.
KeyDown(k, b) ==
    /\ key = "up"
    /\ key' = k
    /\ box' = b
    /\ heard' = (heard /\ trim(b) # "")
    /\ UNCHANGED <<options, view, loading, grid, stats, timers, others, server>>

\* The text is changed with the mouse (paste, drag): no key comes up.
MouseEdit(b) ==
    /\ key = "up"
    /\ b # box
    /\ box' = b
    /\ heard' = FALSE
    /\ UNCHANGED <<key, options, view, loading, grid, stats, timers, others, server>>

remove_dir == opts' \in Opts

\* search_if_change, run when the key comes up.
search_if_change ==
    /\ key # "up"
    /\ key' = "up"
    /\ UNCHANGED <<box, grid, others, server>>
    /\ \/ /\ box = ""
          /\ loading' = FALSE
          /\ UNCHANGED <<cur_search, opts, view, timers, stats, heard>>
       \/ /\ box # "" /\ key = "back" /\ cur_search = box
          /\ remove_dir
          /\ searchf(cur_search)
       \/ /\ box # "" /\ ~(key = "back" /\ cur_search = box)
          /\ IF changed THEN searchf(box)
             ELSE UNCHANGED <<cur_search, view, loading, timers, stats, heard>>
          /\ UNCHANGED opts

\* Enter leaves the box alone and selects the first row when it comes up.
enter_key ==
    /\ key = "up" /\ box # "" /\ rows # <<>>
    /\ sel' = IF 1 \in sel THEN sel \ {1} ELSE sel \cup {1}
    /\ UNCHANGED <<input, options, view, loading, files, rows, cur_page_end,
                   first_grid, stats, timers, others, server, heard>>

\* A click on a column: searches again only if there are files.
orderby(o) ==
    /\ view = "tabs"
    /\ loading' = TRUE
    /\ opts' = o
    /\ search_timeout' = IF files.n > 0 THEN arm_search ELSE search_timeout
    /\ UNCHANGED <<input, cur_search, view, grid, stats, stat_timeout,
                   highlight_timeout, others, server, heard>>

\* A click on a type of files: searches again only if the box has a text.
file_type_search(o) ==
    /\ view = "tabs"
    /\ loading' = TRUE
    /\ opts' = o
    /\ search_timeout' = IF box # "" THEN arm_search ELSE search_timeout
    /\ UNCHANGED <<input, cur_search, view, grid, stats, stat_timeout,
                   highlight_timeout, others, server, heard>>

\* The buttons for case and personal files.
set_option(o) ==
    /\ opts' = o
    /\ searchf(box)
    /\ UNCHANGED <<input, grid, others, server>>

\* The directory button: an empty box becomes "*".
search_dir(o) ==
    /\ opts' = o
    /\ box' = IF box = "" THEN Star ELSE box
    /\ searchf(box')
    /\ UNCHANGED <<key, grid, others, server>>

\* The large files button: "*" by size.  orderby follows searchf unless that
\* throws, and arms the search it has just armed again.
large_files(o) ==
    /\ box' = Star
    /\ searchf(Star)
    /\ opts' = IF server THEN o ELSE opts
    /\ UNCHANGED <<key, grid, others, server>>

\* The home button: the history is shown and the box is emptied.  cur_search
\* and the pending timers stay.
return_history ==
    /\ history_timeout < MaxTimers
    /\ view' = "history"
    /\ load_history
    /\ box' = ""
    /\ heard' = FALSE
    /\ UNCHANGED <<key, options, grid, stats, timers, refresh_timeout, server>>

refresh_button ==
    /\ refresh
    /\ UNCHANGED <<input, opts, grid, refresh_timeout, server>>

\* online_db and offline_db switch and search again later.
offline_db(o) ==
    /\ refresh_timeout < MaxTimers
    /\ opts' = o
    /\ loading' \in {loading, TRUE}
    /\ refresh_timeout' = refresh_timeout + 1
    /\ UNCHANGED <<input, cur_search, view, grid, stats, timers,
                   history_timeout, server, heard>>

\* Deleting the file of a row, which asks first, and deleting the selected
\* files, which does not, end in refresh.
delete_file ==
    /\ view = "tabs" /\ rows # <<>>
    /\ refresh
    /\ UNCHANGED <<input, opts, grid, refresh_timeout, server>>

batch_delete ==
    /\ view = "tabs" /\ sel # {}
    /\ refresh
    /\ UNCHANGED <<input, opts, grid, refresh_timeout, server>>

-----------------------------------------------------------------------------
\* The timers.

\* searchf0 when the service answers.  The answer is eval'ed into files, and
\* drawn unless the text of the box is another by now.
searchf0 ==
    /\ search_timeout.n > 0 /\ box # "" /\ server
    /\ stat_timeout.n <= MaxTimers /\ highlight_timeout.n <= MaxTimers
    /\ search_timeout' = Fire(search_timeout)
    /\ stat_timeout' = Arm(stat_timeout)
    /\ loading' = TRUE
    /\ files' = Answer(cur_search, opts)
    /\ IF changed
       THEN /\ highlight_timeout' = Clear(highlight_timeout)
            /\ UNCHANGED <<rows, sel, first_grid>>
       ELSE /\ view_grid(files')
            /\ highlight_timeout' = grid_event(Clear(highlight_timeout))
    /\ UNCHANGED <<input, options, view, cur_page_end, stats, others, server, heard>>

\* searchf0 when the box has been emptied.
searchf0_empty ==
    /\ search_timeout.n > 0 /\ box = ""
    /\ stat_timeout.n <= MaxTimers
    /\ search_timeout' = Fire(search_timeout)
    /\ stat_timeout' = Arm(stat_timeout)
    /\ loading' = FALSE
    /\ UNCHANGED <<input, options, view, grid, stats, highlight_timeout, others,
                   server, heard>>

\* searchf0 when the service does not answer: restart_when_error empties the
\* grid and starts the server, and searchf0 draws the empty grid again.
searchf0_error ==
    /\ search_timeout.n > 0 /\ box # "" /\ ~server
    /\ stat_timeout.n <= MaxTimers /\ highlight_timeout.n < MaxTimers
    /\ search_timeout' = Fire(search_timeout)
    /\ stat_timeout' = Arm(stat_timeout)
    /\ loading' = FALSE
    /\ restart_when_error
    /\ highlight_timeout' = LET t == grid_event(Clear(highlight_timeout))
                            IN  IF changed THEN t ELSE grid_event(t)
    /\ UNCHANGED <<input, options, view, cur_page_end, stats, others, server>>

stat_num_set(q) == stats' = q

\* stat_search: the numbers of the query, unless it has expired.
stat_search ==
    /\ stat_timeout.n > 0
    /\ stat_timeout' = Fire(stat_timeout)
    /\ IF changed \/ cur_search = ""
       THEN UNCHANGED <<files, rows, sel, first_grid, stats, highlight_timeout, heard>>
       ELSE IF server
       THEN /\ stat_num_set(cur_search)
            /\ UNCHANGED <<files, rows, sel, first_grid, highlight_timeout, heard>>
       ELSE /\ highlight_timeout.n <= MaxTimers
            /\ restart_when_error
            /\ highlight_timeout' = grid_event(highlight_timeout)
            /\ UNCHANGED stats
    /\ UNCHANGED <<input, options, view, loading, cur_page_end, search_timeout,
                   others, server>>

\* icon_replace replaces some pictures and arms itself until all are done; its
\* handle takes the place of that of another pending highlight.  Not used for
\* offline drives.
icon_replace(t) == {t, [t EXCEPT !.own = FALSE]}

\* highlight ends the drawing and hides #loading.
highlight ==
    /\ highlight_timeout.n > 0
    /\ \E t \in icon_replace(Fire(highlight_timeout)) : highlight_timeout' = t
    /\ loading' = FALSE
    /\ UNCHANGED <<input, options, view, grid, stats, search_timeout,
                   stat_timeout, others, server, heard>>

history_parse ==
    /\ history_timeout > 0
    /\ history_timeout' = history_timeout - 1
    /\ loading' = FALSE
    /\ UNCHANGED <<input, options, view, grid, stats, timers, refresh_timeout,
                   server, heard>>

refresh_later ==
    /\ refresh_timeout > 0
    /\ refresh_timeout' = refresh_timeout - 1
    /\ refresh
    /\ UNCHANGED <<input, opts, grid, server>>

-----------------------------------------------------------------------------
\* The server, seen from the page.

ServerDies ==
    /\ server
    /\ server' = FALSE
    /\ UNCHANGED <<input, options, view, loading, grid, stats, timers, others, heard>>

\* The "net start" of restart_when_error takes effect, or someone else starts
\* the service.
ServerStarts ==
    /\ ~server
    /\ server' = TRUE
    /\ UNCHANGED <<input, options, view, loading, grid, stats, timers, others, heard>>

-----------------------------------------------------------------------------
Init ==
    /\ box = "" /\ key = "up" /\ cur_search = ""
    /\ opts = CHOOSE o \in Opts : TRUE
    /\ view = "history" /\ loading = TRUE
    /\ files = NoFiles /\ rows = <<>> /\ sel = {}
    /\ cur_page_end = FirstRows /\ first_grid = TRUE
    /\ stats = ""
    /\ search_timeout = NoTimer /\ stat_timeout = NoTimer
    /\ highlight_timeout = NoTimer
    /\ history_timeout = 1 /\ refresh_timeout = 0
    /\ server = TRUE
    /\ heard = FALSE

RowIds == {rows[k].id : k \in DOMAIN rows} \ {0}

Keys ==
    \/ \E k \in {"char", "back"}, b \in Boxes : KeyDown(k, b)
    \/ search_if_change \/ enter_key

\* The mouse, used while no key is down.
Buttons == key = "up" /\
   (\/ \E b \in Boxes : MouseEdit(b)
    \/ \E o \in Opts : \/ orderby(o) \/ file_type_search(o) \/ set_option(o)
                       \/ search_dir(o) \/ large_files(o) \/ offline_db(o)
    \/ return_history \/ refresh_button \/ delete_file \/ batch_delete
    \/ grid_add_files
    \/ \E id \in RowIds : onSelectRow(id) \/ onContextMenu(id))

Timers ==
    \/ searchf0 \/ searchf0_empty \/ searchf0_error
    \/ stat_search \/ highlight \/ history_parse \/ refresh_later

Next == Keys \/ Buttons \/ Timers \/ ServerDies \/ ServerStarts

Spec == Init /\ [][Next]_vars

-----------------------------------------------------------------------------
Timer == [n : 0..(MaxTimers + 2), own : BOOLEAN]
AllFiles == Texts \X Opts \X (1..(MaxRows + 1))

TypeOK ==
    /\ box \in Boxes /\ key \in {"up", "char", "back"}
    /\ cur_search \in Texts \cup {""} /\ opts \in Opts
    /\ view \in {"history", "tabs"} /\ loading \in BOOLEAN
    /\ files \in [q : Texts \cup {""}, o : Opts, n : 0..(MaxRows + 1)]
    /\ \A k \in DOMAIN rows : rows[k] \in [id : {0, k}, file : AllFiles]
    /\ sel \subseteq Nat
    /\ cur_page_end \in FirstRows..MaxPageEnd /\ first_grid \in BOOLEAN
    /\ stats \in Texts \cup {""}
    /\ search_timeout.n <= 1
    /\ {search_timeout, stat_timeout, highlight_timeout} \subseteq Timer
    /\ history_timeout \in Nat /\ refresh_timeout \in Nat
    /\ server \in BOOLEAN
    /\ heard \in BOOLEAN

Idle ==
    /\ key = "up"
    /\ search_timeout.n = 0 /\ stat_timeout.n = 0 /\ highlight_timeout.n = 0
    /\ history_timeout = 0 /\ refresh_timeout = 0

\* The grid shows the answer to the text of the box under the options set.
ShowsBox ==
    LET ans == Answer(trim(box), opts)
    IN  /\ view = "tabs"
        /\ Len(rows) >= Len(Drawn(ans))
        /\ \A i \in DOMAIN Drawn(ans) : rows[i] = Drawn(ans)[i]
        /\ rows # <<>> => rows[1].file[1] = trim(box)

\* The files of the selected rows.
SelectedFiles == {rows[k].file : k \in {k \in DOMAIN rows : rows[k].id \in sel}}

\* When nothing is pending and the text of the box has been handed to searchf,
\* the grid shows the first files for that text under the options set last,
\* the numbers on the tabs are those of the text, and #loading is hidden.
SettledPageIsCurrent ==
    (Idle /\ heard) => /\ ShowsBox
                       /\ stats = trim(box)
                       /\ files.n > 0 => ~loading

\* While no search is pending a batch command (batchDelete does not even ask)
\* is given the files of the selected rows, though it looks them up by
\* position in files.
BatchHitsSelectionWhenSettled ==
    (heard /\ key = "up" /\ search_timeout.n = 0) => grid_selectd_files = SelectedFiles

\* Scrolling never shows one file twice, however often it is repeated and
\* whatever searches come between.
NoRowTwice ==
    \A k, l \in DOMAIN rows : rows[k].file = rows[l].file => k = l

\* A batch command is given the files of the selected rows.
BatchHitsSelection == grid_selectd_files = SelectedFiles
===============================================================================
