-------------------------------- MODULE Boards --------------------------------
(***************************************************************************)
(* The task boards of a space: boards, columns, tasks with their           *)
(* assignees, labels, checklists, dependencies and activity, and who may   *)
(* change them (task_board_handler.cpp and the statements of database.cpp  *)
(* it sends).  Names, dates, colours and positions are left out, but for   *)
(* the title of a task.                                                    *)
(*                                                                         *)
(* Every table refers to its parent with ON DELETE CASCADE: a row is there *)
(* while it has not been deleted and its parents are there.                *)
(***************************************************************************)
EXTENDS Requests, Sequences

CONSTANTS
  Staff,
  Strangers,       \* ids that a request may name and no user has
  Chiefs,          \* admins of the space or the server: own every board
  BoardScenarios

Grades == [view |-> 0, edit |-> 1, owner |-> 2]

VARIABLES
  boards,          \* task_boards: who created it
  columns,         \* task_columns: the board
  tasks,           \* tasks: board, column, title, creator
  labels,          \* task_labels: the board
  lists,           \* task_checklists: the task
  items,           \* task_checklist_items: the checklist, and whether checked
  links,           \* task_dependencies: pairs of tasks
  assigned,        \* task_assignees: pairs of a task and a person
  tagged,          \* task_label_assignments: pairs of a task and a label
  boardGrants,     \* task_board_permissions
  log,             \* task_activity
  halted           \* history: tasks that a request left half way

boardTables == <<boards, columns, tasks, labels, lists, items, links, assigned, tagged, boardGrants,
                 log, halted>>
boardVars == <<boardTables, serving>>

\* An edit names the assignees, the labels, both or neither (`j.contains').
BoardRequests ==
  [op : {"board"}, by : Staff, title : STRING]
  \cup [op : {"delete board", "column", "label"}, by : Staff, board : Nat]
  \cup [op : {"delete column"}, by : Staff, board : Nat, column : Nat]
  \cup [op : {"task"}, by : Staff, board : Nat, column : Nat, title : STRING,
        people : SUBSET (Staff \cup Strangers), tags : SUBSET Nat]
  \cup [op : {"edit"}, by : Staff, board : Nat, task : Nat, column : Nat, title : STRING,
        names : SUBSET {"people", "tags"}, people : SUBSET (Staff \cup Strangers), tags : SUBSET Nat]
  \cup [op : {"reorder"}, by : Staff, board : Nat, items : Seq([task : Nat, column : Nat])]
  \cup [op : {"delete task", "checklist"}, by : Staff, board : Nat, task : Nat]
  \cup [op : {"delete checklist", "item"}, by : Staff, list : Nat]
  \cup [op : {"update item"}, by : Staff, item : Nat, checked : BOOLEAN]
  \cup [op : {"delete item"}, by : Staff, item : Nat]
  \cup [op : {"delete label"}, by : Staff, label : Nat]
  \cup [op : {"depend"}, by : Staff, board : Nat, task : Nat, on : Nat]
  \cup [op : {"undepend"}, by : Staff, task : Nat, on : Nat]
  \cup [op : {"grant"}, by : Staff, of : Staff, level : DOMAIN Grades]
  \cup [op : {"ungrant"}, by : Staff, of : Staff]

\* A scenario starts with rows that are there, each task in a column of its board.
ASSUME BoardAssumption ==
  \A s \in BoardScenarios :
    /\ s.boards \in Seq([by : Staff, here : {TRUE}])
    /\ s.columns \in Seq([board : DOMAIN s.boards, here : {TRUE}])
    /\ s.tasks \in Seq([board : DOMAIN s.boards, column : DOMAIN s.columns, title : STRING,
                        by : Staff, here : {TRUE}])
    /\ s.labels \in Seq([board : DOMAIN s.boards, here : {TRUE}])
    /\ \A t \in DOMAIN s.tasks : s.columns[s.tasks[t].column].board = s.tasks[t].board
    /\ s.boardGrants \in [Staff -> DOMAIN Grades]
    /\ s.requests \subseteq BoardRequests
    /\ s.atOnce \in Nat \ {0}

BoardTables(s) ==
  /\ boards = s.boards /\ columns = s.columns /\ tasks = s.tasks /\ labels = s.labels
  /\ boardGrants = s.boardGrants
  /\ lists = <<>> /\ items = <<>> /\ links = {} /\ assigned = {} /\ tagged = {}
  /\ log = <<>> /\ halted = {}
InitBoards == \E s \in BoardScenarios : BoardTables(s) /\ Listening(s)

BoardThere(b) == b \in DOMAIN boards /\ boards[b].here
ColumnThere(c) == c \in DOMAIN columns /\ columns[c].here /\ BoardThere(columns[c].board)
TaskThere(t) ==
  t \in DOMAIN tasks /\ tasks[t].here /\ ColumnThere(tasks[t].column) /\ BoardThere(tasks[t].board)
LabelThere(l) == l \in DOMAIN labels /\ labels[l].here /\ BoardThere(labels[l].board)
ListThere(k) == k \in DOMAIN lists /\ lists[k].here /\ TaskThere(lists[k].task)
ItemThere(i) == i \in DOMAIN items /\ items[i].here /\ ListThere(items[i].list)
LinksThere == {p \in links : TaskThere(p[1]) /\ TaskThere(p[2])}
OnBoard(t, b) == TaskThere(t) /\ tasks[t].board = b
InColumn(c) == {t \in DOMAIN tasks : TaskThere(t) /\ tasks[t].column = c}

\* get_access_level
BoardLevel(u) == IF u \in Chiefs THEN Grades.owner ELSE Grades[boardGrants[u]]
MayEdit(w) == BoardLevel(job[w].by) >= Grades.edit
Owns(w, by) == by = job[w].by \/ BoardLevel(job[w].by) = Grades.owner

NamesBoardRows(r) ==
  /\ "board" \in DOMAIN r => r.board \in DOMAIN boards
  /\ "column" \in DOMAIN r => r.column \in {0} \cup DOMAIN columns
  /\ "task" \in DOMAIN r => r.task \in DOMAIN tasks
  /\ "label" \in DOMAIN r => r.label \in DOMAIN labels
  /\ "list" \in DOMAIN r => r.list \in DOMAIN lists
  /\ "item" \in DOMAIN r => r.item \in DOMAIN items

TakeBoardRequest(w) == Accept(w, {r \in calls.requests : NamesBoardRows(r)}) /\ UNCHANGED boardTables
Examine(w, refused, place) == Unless(w, refused, place) /\ UNCHANGED boardTables

Log(w, t, from, to) ==
  log' = Append(log, [task |-> t, by |-> job[w].by, from |-> from, to |-> to])
Delete(rows, k) == [rows EXCEPT ![k].here = FALSE]

-----------------------------------------------------------------------------
(* Boards and columns *)

CheckBoard(w) ==
  /\ At(w, "board", "check")
  /\ Examine(w, ~MayEdit(w), "write")

CreateBoard(w) ==
  /\ At(w, "board", "write")
  /\ boards' = Append(boards, [by |-> job[w].by, here |-> TRUE])
  /\ Recall(w, "columns", [board |-> Len(boards) + 1, left |-> 3])
  /\ UNCHANGED <<columns, tasks, labels, lists, items, links, assigned, tagged, boardGrants, log, halted>>

\* To Do, In Progress and Done, a transaction each.
CreateDefaultColumn(w) ==
  /\ At(w, "board", "columns")
  /\ LET b == job[w].saw.board
         left == job[w].saw.left
     IN IF BoardThere(b)
        THEN /\ columns' = Append(columns, [board |-> b, here |-> TRUE])
             /\ IF left = 1 THEN Respond(w)
                ELSE Recall(w, "columns", [board |-> b, left |-> left - 1])
        ELSE Respond(w) /\ UNCHANGED columns
  /\ UNCHANGED <<boards, tasks, labels, lists, items, links, assigned, tagged, boardGrants, log, halted>>

\* Who created a board may delete it, whatever has become of the permission.
CheckDeleteBoard(w) ==
  /\ At(w, "delete board", "check")
  /\ Examine(w, ~BoardThere(job[w].board) \/ ~Owns(w, boards[job[w].board].by), "write")

DeleteBoard(w) ==
  /\ At(w, "delete board", "write")
  /\ boards' = Delete(boards, job[w].board)
  /\ Respond(w)
  /\ UNCHANGED <<columns, tasks, labels, lists, items, links, assigned, tagged, boardGrants, log, halted>>

CheckColumn(w) ==
  /\ At(w, "column", "check")
  /\ Examine(w, ~MayEdit(w) \/ ~BoardThere(job[w].board), "write")

CreateColumn(w) ==
  /\ At(w, "column", "write")
  /\ columns' = IF BoardThere(job[w].board)
                THEN Append(columns, [board |-> job[w].board, here |-> TRUE]) ELSE columns
  /\ Respond(w)
  /\ UNCHANGED <<boards, tasks, labels, lists, items, links, assigned, tagged, boardGrants, log, halted>>

\* Mutant: a column is deleted with what is in it.
CheckDeleteColumnFull(w) ==
  /\ At(w, "delete column", "check")
  /\ Examine(w, ~MayEdit(w) \/ ~ColumnThere(job[w].column) \/ columns[job[w].column].board # job[w].board,
          "write")

\* get_column_task_count: an empty column may be deleted, and is a moment later.
CheckDeleteColumn(w) ==
  /\ At(w, "delete column", "check")
  /\ Examine(w, \/ ~MayEdit(w) \/ ~ColumnThere(job[w].column)
             \/ columns[job[w].column].board # job[w].board
             \/ InColumn(job[w].column) # {},
          "write")

DeleteColumn(w) ==
  /\ At(w, "delete column", "write")
  /\ columns' = Delete(columns, job[w].column)
  /\ Respond(w)
  /\ UNCHANGED <<boards, tasks, labels, lists, items, links, assigned, tagged, boardGrants, log, halted>>

-----------------------------------------------------------------------------
(* Tasks *)

CheckTask(w) ==
  /\ At(w, "task", "check")
  /\ Examine(w, \/ ~MayEdit(w) \/ ~BoardThere(job[w].board)
             \/ ~ColumnThere(job[w].column) \/ columns[job[w].column].board # job[w].board,
          "insert")

\* create_task
InsertTask(w) ==
  /\ At(w, "task", "insert")
  /\ IF ColumnThere(job[w].column)
     THEN /\ tasks' = Append(tasks, [board |-> job[w].board, column |-> job[w].column,
                                     title |-> job[w].title, by |-> job[w].by, here |-> TRUE])
          /\ Recall(w, "assign", [task |-> Len(tasks) + 1, from |-> 0, to |-> 0, changed |-> TRUE,
                                  people |-> job[w].people, tags |-> job[w].tags])
     ELSE Respond(w) /\ UNCHANGED tasks
  /\ UNCHANGED <<boards, columns, labels, lists, items, links, assigned, tagged, boardGrants, log, halted>>

\* PUT .../tasks/:taskId: what the request does not name is what is read here.
CheckEdit(w) ==
  /\ At(w, "edit", "check")
  /\ LET t == job[w].task
         to == IF job[w].column = 0 THEN tasks[t].column ELSE job[w].column
     IN IF \/ ~MayEdit(w) \/ ~TaskThere(t) \/ tasks[t].board # job[w].board
           \/ to # tasks[t].column /\ (~ColumnThere(to) \/ columns[to].board # job[w].board)
        THEN Respond(w)
        ELSE Recall(w, "update",
               [task |-> t, from |-> tasks[t].column, to |-> to,
                title |-> IF job[w].title = "" THEN tasks[t].title ELSE job[w].title,
                changed |-> job[w].title \notin {"", tasks[t].title}, people |-> {}, tags |-> {}])
  /\ UNCHANGED boardTables

\* update_task writes every field.
UpdateTask(w) ==
  /\ At(w, "edit", "update")
  /\ LET s == job[w].saw IN
     IF TaskThere(s.task) /\ ColumnThere(s.to)
     THEN /\ tasks' = [tasks EXCEPT ![s.task].column = s.to, ![s.task].title = s.title]
          /\ Proceed(w, "unassign")
     ELSE Respond(w) /\ UNCHANGED tasks
  /\ UNCHANGED <<boards, columns, labels, lists, items, links, assigned, tagged, boardGrants, log, halted>>

\* An edit that names assignees takes away those it does not name, all of them
\* if it names none.
Unassign(w) ==
  /\ At(w, "edit", "unassign")
  /\ LET s == job[w].saw
         named == "people" \in job[w].names
     IN /\ assigned' = {p \in assigned : named /\ p[1] = s.task => p[2] \in job[w].people}
        /\ Recall(w, "assign", [s EXCEPT !.people = IF named THEN job[w].people ELSE {}])
  /\ UNCHANGED <<boards, columns, tasks, labels, lists, items, links, tagged, boardGrants, log, halted>>

\* Then the named ones come, one row after the other: one that is not there
\* ends the request before the log.
Assign(w) ==
  /\ job[w].op \in {"task", "edit"} /\ job[w].at = "assign"
  /\ LET s == job[w].saw IN
     \/ /\ s.people = {}
        /\ Proceed(w, IF job[w].op = "edit" THEN "untag" ELSE "tag")
        /\ UNCHANGED <<assigned, halted>>
     \/ \E p \in s.people :
          IF TaskThere(s.task) /\ p \in Staff
          THEN /\ assigned' = assigned \cup {<<s.task, p>>}
               /\ Recall(w, "assign", [s EXCEPT !.people = @ \ {p}])
               /\ UNCHANGED halted
          ELSE Respond(w) /\ halted' = halted \cup {s.task} /\ UNCHANGED assigned
  /\ UNCHANGED <<boards, columns, tasks, labels, lists, items, links, tagged, boardGrants, log>>

\* The labels after the assignees, in the same way; that a label is on the
\* task's board is not asked.
Untag(w) ==
  /\ At(w, "edit", "untag")
  /\ LET s == job[w].saw
         named == "tags" \in job[w].names
     IN /\ tagged' = {p \in tagged : named /\ p[1] = s.task => p[2] \in job[w].tags}
        /\ Recall(w, "tag", [s EXCEPT !.tags = IF named THEN job[w].tags ELSE {}])
  /\ UNCHANGED <<boards, columns, tasks, labels, lists, items, links, assigned, boardGrants, log, halted>>

Tag(w) ==
  /\ job[w].op \in {"task", "edit"} /\ job[w].at = "tag"
  /\ LET s == job[w].saw IN
     \/ s.tags = {} /\ Proceed(w, "log") /\ UNCHANGED <<tagged, halted>>
     \/ \E l \in s.tags :
          IF TaskThere(s.task) /\ LabelThere(l)
          THEN /\ tagged' = tagged \cup {<<s.task, l>>}
               /\ Recall(w, "tag", [s EXCEPT !.tags = @ \ {l}])
               /\ UNCHANGED halted
          ELSE Respond(w) /\ halted' = halted \cup {s.task} /\ UNCHANGED tagged
  /\ UNCHANGED <<boards, columns, tasks, labels, lists, items, links, assigned, boardGrants, log>>

\* log_task_activity, if there is something to tell.
LogTask(w) ==
  /\ job[w].op \in {"task", "edit"} /\ job[w].at = "log"
  /\ LET s == job[w].saw IN
     IF TaskThere(s.task) /\ (s.changed \/ s.from # s.to)
     THEN Log(w, s.task, s.from, s.to) ELSE UNCHANGED log
  /\ Respond(w)
  /\ UNCHANGED <<boards, columns, tasks, labels, lists, items, links, assigned, tagged, boardGrants, halted>>

CheckReorder(w) ==
  /\ At(w, "reorder", "check")
  /\ IF ~MayEdit(w) \/ ~BoardThere(job[w].board) THEN Respond(w)
     ELSE Recall(w, "item", [next |-> 1])
  /\ UNCHANGED boardTables

\* One item after the other is looked up; at the first that is not on the board
\* the request is refused, and those before it have moved.
CheckItem(w) ==
  /\ At(w, "reorder", "item")
  /\ LET n == job[w].saw.next IN
     IF n > Len(job[w].items) THEN Respond(w)
     ELSE LET i == job[w].items[n] IN
          IF \/ ~OnBoard(i.task, job[w].board)
             \/ i.column # tasks[i.task].column
                  /\ (~ColumnThere(i.column) \/ columns[i.column].board # job[w].board)
          THEN Respond(w)
          ELSE IF i.column = tasks[i.task].column THEN Recall(w, "item", [next |-> n + 1])
          ELSE Recall(w, "move", [next |-> n + 1, task |-> i.task, from |-> tasks[i.task].column,
                                  to |-> i.column, title |-> tasks[i.task].title])
  /\ UNCHANGED boardTables

MoveItem(w) ==
  /\ At(w, "reorder", "move")
  /\ LET s == job[w].saw IN
     IF TaskThere(s.task) /\ ColumnThere(s.to)
     THEN /\ tasks' = [tasks EXCEPT ![s.task].column = s.to, ![s.task].title = s.title]
          /\ Proceed(w, "log")
     ELSE Respond(w) /\ UNCHANGED tasks
  /\ UNCHANGED <<boards, columns, labels, lists, items, links, assigned, tagged, boardGrants, log, halted>>

LogItem(w) ==
  /\ At(w, "reorder", "log")
  /\ LET s == job[w].saw IN
     IF TaskThere(s.task)
     THEN Log(w, s.task, s.from, s.to) /\ Recall(w, "item", [next |-> s.next])
     ELSE Respond(w) /\ UNCHANGED log
  /\ UNCHANGED <<boards, columns, tasks, labels, lists, items, links, assigned, tagged, boardGrants, halted>>

CheckDeleteTask(w) ==
  /\ At(w, "delete task", "check")
  /\ Examine(w, ~OnBoard(job[w].task, job[w].board) \/ ~Owns(w, tasks[job[w].task].by), "write")

DeleteTask(w) ==
  /\ At(w, "delete task", "write")
  /\ tasks' = Delete(tasks, job[w].task)
  /\ Respond(w)
  /\ UNCHANGED <<boards, columns, labels, lists, items, links, assigned, tagged, boardGrants, log, halted>>

-----------------------------------------------------------------------------
(* What hangs on a task or a board *)

\* require_resource_in_space: of the space's boards any will do.
CheckChecklist(w) ==
  /\ At(w, "checklist", "check")
  /\ Examine(w, ~MayEdit(w) \/ ~OnBoard(job[w].task, job[w].board), "write")

CreateChecklist(w) ==
  /\ At(w, "checklist", "write")
  /\ IF TaskThere(job[w].task)
     THEN lists' = Append(lists, [task |-> job[w].task, here |-> TRUE]) /\ Proceed(w, "note")
     ELSE Respond(w) /\ UNCHANGED lists
  /\ UNCHANGED <<boards, columns, tasks, labels, items, links, assigned, tagged, boardGrants, log, halted>>

\* log_task_activity, of a checklist or a dependency that has come.
NotePart(w) ==
  /\ job[w].op \in {"checklist", "depend"} /\ job[w].at = "note"
  /\ IF TaskThere(job[w].task) THEN Log(w, job[w].task, 0, 0) ELSE UNCHANGED log
  /\ Respond(w)
  /\ UNCHANGED <<boards, columns, tasks, labels, lists, items, links, assigned, tagged, boardGrants, halted>>

CheckDeleteChecklist(w) ==
  /\ At(w, "delete checklist", "check")
  /\ Examine(w, ~MayEdit(w) \/ ~ListThere(job[w].list), "write")

DeleteChecklist(w) ==
  /\ At(w, "delete checklist", "write")
  /\ lists' = Delete(lists, job[w].list)
  /\ Respond(w)
  /\ UNCHANGED <<boards, columns, tasks, labels, items, links, assigned, tagged, boardGrants, log, halted>>

CheckAddItem(w) ==
  /\ At(w, "item", "check")
  /\ Examine(w, ~MayEdit(w) \/ ~ListThere(job[w].list), "write")

AddItem(w) ==
  /\ At(w, "item", "write")
  /\ items' = IF ListThere(job[w].list)
              THEN Append(items, [list |-> job[w].list, checked |-> FALSE, here |-> TRUE]) ELSE items
  /\ Respond(w)
  /\ UNCHANGED <<boards, columns, tasks, labels, lists, links, assigned, tagged, boardGrants, log, halted>>

CheckUpdateItem(w) ==
  /\ At(w, "update item", "check")
  /\ Examine(w, ~MayEdit(w) \/ ~ItemThere(job[w].item), "write")

UpdateItem(w) ==
  /\ At(w, "update item", "write")
  /\ items' = IF ItemThere(job[w].item)
              THEN [items EXCEPT ![job[w].item].checked = job[w].checked] ELSE items
  /\ Respond(w)
  /\ UNCHANGED <<boards, columns, tasks, labels, lists, links, assigned, tagged, boardGrants, log, halted>>

CheckDeleteItem(w) ==
  /\ At(w, "delete item", "check")
  /\ Examine(w, ~MayEdit(w) \/ ~ItemThere(job[w].item), "write")

DeleteItem(w) ==
  /\ At(w, "delete item", "write")
  /\ items' = Delete(items, job[w].item)
  /\ Respond(w)
  /\ UNCHANGED <<boards, columns, tasks, labels, lists, links, assigned, tagged, boardGrants, log, halted>>

CheckLabel(w) ==
  /\ At(w, "label", "check")
  /\ Examine(w, ~MayEdit(w) \/ ~BoardThere(job[w].board), "write")

CreateLabel(w) ==
  /\ At(w, "label", "write")
  /\ labels' = IF BoardThere(job[w].board)
               THEN Append(labels, [board |-> job[w].board, here |-> TRUE]) ELSE labels
  /\ Respond(w)
  /\ UNCHANGED <<boards, columns, tasks, lists, items, links, assigned, tagged, boardGrants, log, halted>>

CheckDeleteLabel(w) ==
  /\ At(w, "delete label", "check")
  /\ Examine(w, ~MayEdit(w) \/ ~LabelThere(job[w].label), "write")

DeleteLabel(w) ==
  /\ At(w, "delete label", "write")
  /\ labels' = Delete(labels, job[w].label)
  /\ Respond(w)
  /\ UNCHANGED <<boards, columns, tasks, lists, items, links, assigned, tagged, boardGrants, log, halted>>

CheckDepend(w) ==
  /\ At(w, "depend", "check")
  /\ Examine(w, \/ ~MayEdit(w) \/ ~OnBoard(job[w].task, job[w].board)
             \/ ~OnBoard(job[w].on, job[w].board), "write")

\* A task cannot depend on itself; a cycle of two is not looked for.
AddDependency(w) ==
  /\ At(w, "depend", "write")
  /\ LET p == <<job[w].task, job[w].on>> IN
     IF p[1] # p[2] /\ TaskThere(p[1]) /\ TaskThere(p[2])
     THEN links' = links \cup {p} /\ Proceed(w, "note")
     ELSE Respond(w) /\ UNCHANGED links
  /\ UNCHANGED <<boards, columns, tasks, labels, lists, items, assigned, tagged, boardGrants, log, halted>>

CheckUndepend(w) ==
  /\ At(w, "undepend", "check")
  /\ Examine(w, ~MayEdit(w) \/ <<job[w].task, job[w].on>> \notin LinksThere, "write")

RemoveDependency(w) ==
  /\ At(w, "undepend", "write")
  /\ links' = links \ {<<job[w].task, job[w].on>>}
  /\ Respond(w)
  /\ UNCHANGED <<boards, columns, tasks, labels, lists, items, assigned, tagged, boardGrants, log, halted>>

CheckBoardGrant(w) ==
  /\ At(w, "grant", "check")
  /\ Examine(w, BoardLevel(job[w].by) < Grades.owner, "write")

CheckBoardUngrant(w) ==
  /\ At(w, "ungrant", "check")
  /\ Examine(w, BoardLevel(job[w].by) < Grades.owner, "write")

\* set_task_permission
SetBoardGrant(w) ==
  /\ At(w, "grant", "write")
  /\ boardGrants' = [boardGrants EXCEPT ![job[w].of] = job[w].level]
  /\ Respond(w)
  /\ UNCHANGED <<boards, columns, tasks, labels, lists, items, links, assigned, tagged, log, halted>>

\* remove_task_permission: who has none may look.
RemoveBoardGrant(w) ==
  /\ At(w, "ungrant", "write")
  /\ boardGrants' = [boardGrants EXCEPT ![job[w].of] = "view"]
  /\ Respond(w)
  /\ UNCHANGED <<boards, columns, tasks, labels, lists, items, links, assigned, tagged, log, halted>>

-----------------------------------------------------------------------------

NextBoards ==
  \E w \in Threads :
    \/ TakeBoardRequest(w)
    \/ CheckBoard(w) \/ CreateBoard(w) \/ CreateDefaultColumn(w)
    \/ CheckDeleteBoard(w) \/ DeleteBoard(w) \/ CheckColumn(w) \/ CreateColumn(w)
    \/ CheckDeleteColumn(w) \/ DeleteColumn(w)
    \/ CheckTask(w) \/ InsertTask(w) \/ CheckEdit(w) \/ UpdateTask(w)
    \/ Unassign(w) \/ Assign(w) \/ Untag(w) \/ Tag(w) \/ LogTask(w)
    \/ CheckReorder(w) \/ CheckItem(w) \/ MoveItem(w) \/ LogItem(w)
    \/ CheckDeleteTask(w) \/ DeleteTask(w)
    \/ CheckChecklist(w) \/ CreateChecklist(w) \/ NotePart(w)
    \/ CheckDeleteChecklist(w) \/ DeleteChecklist(w)
    \/ CheckAddItem(w) \/ AddItem(w) \/ CheckUpdateItem(w) \/ UpdateItem(w)
    \/ CheckDeleteItem(w) \/ DeleteItem(w)
    \/ CheckLabel(w) \/ CreateLabel(w) \/ CheckDeleteLabel(w) \/ DeleteLabel(w)
    \/ CheckDepend(w) \/ AddDependency(w) \/ CheckUndepend(w) \/ RemoveDependency(w)
    \/ CheckBoardGrant(w) \/ SetBoardGrant(w) \/ CheckBoardUngrant(w) \/ RemoveBoardGrant(w)

BoardsSpec == InitBoards /\ [][NextBoards]_boardVars

-----------------------------------------------------------------------------
(* Properties *)

\* Every row refers to one that was made, and so does the activity.
BoardTypes ==
  /\ boards \in Seq([by : Staff, here : BOOLEAN])
  /\ columns \in Seq([board : DOMAIN boards, here : BOOLEAN])
  /\ tasks \in Seq([board : DOMAIN boards, column : DOMAIN columns, title : STRING, by : Staff, here : BOOLEAN])
  /\ labels \in Seq([board : DOMAIN boards, here : BOOLEAN])
  /\ lists \in Seq([task : DOMAIN tasks, here : BOOLEAN])
  /\ items \in Seq([list : DOMAIN lists, checked : BOOLEAN, here : BOOLEAN])
  /\ links \subseteq (DOMAIN tasks) \X (DOMAIN tasks)
  /\ assigned \subseteq (DOMAIN tasks) \X Staff
  /\ tagged \subseteq (DOMAIN tasks) \X (DOMAIN labels)
  /\ boardGrants \in [Staff -> DOMAIN Grades]
  /\ log \in Seq([task : DOMAIN tasks, by : Staff, from : Nat, to : Nat])
  /\ halted \subseteq DOMAIN tasks

\* The moves of a task in its activity, where each follows the one before.
MovesOf(t) == {i \in DOMAIN log : log[i].task = t /\ log[i].from # log[i].to}
NextMove(t, i, j) == i < j /\ \A k \in MovesOf(t) : k <= i \/ j <= k
LastMove(t, i) == \A k \in MovesOf(t) : k <= i

\* A task depends on tasks of its own board only (task_board_handler.cpp:1838).
\* Of requests served in turn, a task lies in a column of its board (:790,
\* :1030 and :1240), none is taken away with its column, and the activity of a
\* task tells where it has been: each move begins where the last one ended and
\* the last one where the task is, unless a request stopped half way at an
\* assignee or a label that is not there (:1082).  Two requests at once can
\* break both: an edit writes back the column it has read (:1058) and a column
\* that was empty is deleted with the task that has come (:717).
TasksWhereLogged ==
  /\ \A t \in DOMAIN tasks : columns[tasks[t].column].board = tasks[t].board
  /\ \A p \in links : tasks[p[1]].board = tasks[p[2]].board
  /\ OneAtATime =>
       \A t \in DOMAIN tasks :
         /\ tasks[t].here /\ BoardThere(tasks[t].board) => ColumnThere(tasks[t].column)
         /\ t \notin halted =>
              /\ \A i, j \in MovesOf(t) : NextMove(t, i, j) => log[j].from = log[i].to
              /\ AtRest => \A i \in MovesOf(t) : LastMove(t, i) => log[i].to = tasks[t].column
=============================================================================
