------------------------------ MODULE MCRouter ------------------------------
(* PDUs of up to three commands that announce up to one more than they      *)
(* have.  The buffer holds the header and three responses without           *)
(* parameters, or a Get and one of them to the byte, but no two Gets.  One  *)
(* of the two connections that send is subscribed.                          *)
EXTENDS Router
Command(k) ==
  [handle : {k}, target : {1}, method : {"Get"}, arg : {Missing}, whole : {TRUE}]
  \cup [handle : {k}, target : {1}, method : {"Set"}, arg : {0, TooBig, Missing},
        whole : {TRUE}]
  \cup [handle : {k}, target : {2}, method : {"Set"}, arg : {1}, whole : BOOLEAN]
  \cup [handle : {k}, target : {3}, method : {"Get"}, arg : {Missing}, whole : {TRUE}]
Body == {<<>>} \cup {<<x>> : x \in Command(1)}
        \cup {<<x, y>> : x \in Command(1), y \in Command(2)}
        \cup {<<x, y, z>> : x \in Command(1), y \in Command(2), z \in Command(3)}
MCPdu == UNION {[conn : Conn, rrq : BOOLEAN, count : 0 .. Len(b) + 1, body : {b}] : b \in Body}
(* Between two PDUs only the values matter to what follows, and             *)
(* active_conn to the invariants.                                           *)
View == IF pdu = Nothing THEN <<num, active_conn>> ELSE <<vars>>
=============================================================================
