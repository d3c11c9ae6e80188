------------------------------- MODULE Matrix -------------------------------
(* OcaMatrix (aes70_matrix.c): a grid of member objects, a current selection *)
(* and its lock.  The server task executes the methods one at a time;        *)
(* aes70_matrix_set_member, called by the application, takes no lock and may *)
(* check one grid and write into another.  A request that is refused, or cut *)
(* short, changes nothing and is no step here, but for SetMembers.           *)
EXTENDS Integers, Sequences

CONSTANTS
  MX_MAX,         \* rows and columns of the member table
  Member          \* object numbers of members

ASSUME MatrixAssumption == MX_MAX \in Nat \ {0} /\ 0 \notin Member

Size  == 0 .. MX_MAX
Line  == 1 .. MX_MAX
Ask   == 0 .. MX_MAX + 1           \* coordinates and sizes a caller may ask for
Cell  == Member \cup {0}           \* 0: no member
Setting == {"proxy_ono", "ports_per_row", "ports_per_col"}

VARIABLES
  x_size, y_size,      \* columns, rows
  cur_x, cur_y,        \* the selection; 0 = a whole row or column
  xy_locked,
  members,             \* members[y][x]
  settings,            \* numbers stored for the controller
  app,                 \* aes70_matrix_set_member under way: checked, not yet written
  method               \* ghost: the last method carried out

grid == <<x_size, y_size, members>>
selection == <<cur_x, cur_y>>
vars == <<grid, selection, xy_locked, settings, app, method>>

NoCall == [x |-> 0, y |-> 0, ono |-> 0]
Smaller(a, b) == IF a < b THEN a ELSE b

(* The sizes asked of aes70_matrix_create are cut to the table.            *)
Init ==
  /\ \E w, h \in Ask : x_size = Smaller(w, MX_MAX) /\ y_size = Smaller(h, MX_MAX)
  /\ cur_x = 0 /\ cur_y = 0 /\ xy_locked = FALSE
  /\ members = [y \in Line |-> [x \in Line |-> 0]]
  /\ settings = [s \in Setting |-> IF s = "proxy_ono" THEN 0 ELSE 1]
  /\ app = NoCall
  /\ method = "none"

-----------------------------------------------------------------------------
(* Methods of the server task.                                             *)
Selectable(x, y) == x <= x_size /\ y <= y_size

(* Bug: the lock is not looked at.                                         *)
SetCurrentXYUnheldBug(x, y) ==
  /\ method' = "SetCurrentXY"
  /\ Selectable(x, y)
  /\ cur_x' = x /\ cur_y' = y
  /\ UNCHANGED <<grid, xy_locked, settings, app>>

SetCurrentXY(x, y) ==
  /\ method' = "SetCurrentXY"
  /\ ~xy_locked
  /\ Selectable(x, y)
  /\ cur_x' = x /\ cur_y' = y
  /\ UNCHANGED <<grid, xy_locked, settings, app>>

(* The lock has no owner and does not keep out a second locker.            *)
SetCurrentXYLock(x, y) ==
  /\ method' = "SetCurrentXYLock"
  /\ Selectable(x, y)
  /\ cur_x' = x /\ cur_y' = y
  /\ xy_locked' = TRUE
  /\ UNCHANGED <<grid, settings, app>>

UnlockCurrent ==
  /\ method' = "UnlockCurrent"
  /\ xy_locked' = FALSE
  /\ UNCHANGED <<grid, selection, settings, app>>

(* Bug: the upper bound is not checked.                                    *)
SizeAllowedBug(x, y) == x >= 1 /\ y >= 1

SizeAllowed(x, y) == x \in Line /\ y \in Line

(* Bug: a selection the new grid has no place for is kept.                 *)
SelectionAfterBug(cur, size) == cur

SelectionAfter(cur, size) == IF cur > size THEN 0 ELSE cur

SetSize(x, y) ==
  /\ method' = "SetSize"
  /\ SizeAllowed(x, y)
  /\ x_size' = x /\ y_size' = y
  /\ cur_x' = SelectionAfter(cur_x, x) /\ cur_y' = SelectionAfter(cur_y, y)
  /\ UNCHANGED <<members, xy_locked, settings, app>>

(* Bug: the list is taken column by column.                                *)
MembersFromBug(rows, cols, sent) ==
  [y \in Line |-> [x \in Line |->
     LET at == (x - 1) * rows + y
     IN  IF y > rows \/ x > cols THEN members[y][x]
         ELSE IF at <= Len(sent) THEN sent[at] ELSE 0]]

(* One row after the other; past the end of the request 0 is read.         *)
MembersFrom(rows, cols, sent) ==
  [y \in Line |-> [x \in Line |->
     LET at == (y - 1) * cols + x
     IN  IF y > rows \/ x > cols THEN members[y][x]
         ELSE IF at <= Len(sent) THEN sent[at] ELSE 0]]

(* Cut short, it is answered BadFormat after size and members are set.     *)
SetMembers(rows, cols, sent) ==
  /\ method' = "SetMembers"
  /\ rows \in Size /\ cols \in Size
  /\ y_size' = rows /\ x_size' = cols
  /\ members' = MembersFrom(rows, cols, sent)
  /\ UNCHANGED <<selection, xy_locked, settings, app>>

InGrid(x, y) == x \in 1 .. x_size /\ y \in 1 .. y_size

SetMember(x, y, ono) ==
  /\ method' = "SetMember"
  /\ InGrid(x, y)
  /\ members' = [members EXCEPT ![y][x] = ono]
  /\ UNCHANGED <<x_size, y_size, selection, xy_locked, settings, app>>

(* SetProxy, SetPortsPerRow, SetPortsPerColumn.                            *)
SetSetting(s, v) ==
  /\ method' = "SetSetting"
  /\ settings' = [settings EXCEPT ![s] = v]
  /\ UNCHANGED <<grid, selection, xy_locked, app>>

(* GetMembers answers the rows of the grid, one after the other.           *)
GetMembers ==
  [i \in 1 .. x_size * y_size |-> members[((i - 1) \div x_size) + 1][((i - 1) % x_size) + 1]]

-----------------------------------------------------------------------------
(* aes70_matrix_set_member of the application: the check, then the store.  *)
AppCheck(x, y, ono) ==
  /\ app = NoCall
  /\ InGrid(x, y)
  /\ app' = [x |-> x, y |-> y, ono |-> ono]
  /\ UNCHANGED <<grid, selection, xy_locked, settings, method>>

AppStore ==
  /\ app # NoCall
  /\ members' = [members EXCEPT ![app.y][app.x] = app.ono]
  /\ app' = NoCall
  /\ UNCHANGED <<x_size, y_size, selection, xy_locked, settings, method>>

(* Lists a request for n cells may carry.                                  *)
Sendable(n) == UNION {[1 .. k -> Cell] : k \in 0 .. n}

Next ==
  \/ \E x, y \in Ask : SetCurrentXY(x, y) \/ SetCurrentXYLock(x, y) \/ SetSize(x, y)
  \/ UnlockCurrent
  \/ \E rows, cols \in Size : \E sent \in Sendable(rows * cols) : SetMembers(rows, cols, sent)
  \/ \E x, y \in Ask, ono \in Cell : SetMember(x, y, ono) \/ AppCheck(x, y, ono)
  \/ \E s \in Setting, v \in 0 .. 1 : SetSetting(s, v)
  \/ AppStore

Spec == Init /\ [][Next]_vars
-----------------------------------------------------------------------------
(* Properties.                                                             *)

(* Type invariant; the grid, and a write the application has checked       *)
(* against an earlier grid, stay inside the member table.                  *)
TypeOK ==
  /\ x_size \in Size /\ y_size \in Size
  /\ cur_x \in Size /\ cur_y \in Size
  /\ xy_locked \in BOOLEAN
  /\ members \in [Line -> [Line -> Cell]]
  /\ settings \in [Setting -> Nat]
  /\ app = NoCall \/ (app.x \in Line /\ app.y \in Line /\ app.ono \in Cell)

(* The selection names a row and a column of the grid, or all of them      *)
(* (aes70_matrix.c:24).  SetSize mends one the new grid has no place for   *)
(* (:89-90), SetMembers does not (:102).                                   *)
CurrentInsideGrid == cur_x <= x_size /\ cur_y <= y_size

(* A selection comes to lie outside the grid by a SetMembers, and by       *)
(* nothing else.                                                           *)
OnlySetMembersStrands ==
  [][CurrentInsideGrid /\ ~CurrentInsideGrid' =>
       method' = "SetMembers" /\ UNCHANGED selection]_vars

(* What a SetMembers carried is what GetMembers then answers, and what     *)
(* GetMember, whose X counts columns, finds at its coordinates.            *)
MembersReadBack ==
  [][method' = "SetMembers" =>
     \A rows, cols \in Line : \A sent \in [1 .. rows * cols -> Cell] :
       SetMembers(rows, cols, sent) =>
         /\ GetMembers' = sent
         /\ \A y \in 1 .. rows, x \in 1 .. cols : members'[y][x] = sent[(y - 1) * cols + x]]_vars

(* A locked selection stays as it is until it is unlocked, except for      *)
(* another SetCurrentXYLock and a SetSize that leaves no place for it.     *)
LockedSelectionHeld ==
  [][xy_locked /\ selection' # selection =>
       \/ method' = "SetCurrentXYLock"
       \/ method' = "SetSize" /\ (x_size' < cur_x \/ y_size' < cur_y)]_vars
=============================================================================
