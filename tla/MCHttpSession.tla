------------------------------ MODULE MCHttpSession ------------------------------
(* The instances of HttpSession that TLC checks: requests of each shape, the    *)
(* lengths on both sides of the buffer's and of its limit.                      *)
EXTENDS HttpSession, TLC

R(head, body, type, chunked, close) ==
  [head |-> head, body |-> body, type |-> type, chunked |-> chunked, close |-> close]

MCRequests ==
  {R(4, 0, "string", FALSE, FALSE), R(1, 0, "string", FALSE, TRUE), R(1, 1, "string", FALSE, FALSE),
   R(1, 4, "string", FALSE, FALSE), R(2, 2, "form", FALSE, FALSE), R(2, 3, "octet", FALSE, FALSE),
   R(3, 1, "multipart", FALSE, FALSE), R(1, 3, "form", TRUE, TRUE)}

\* A head longer than the limit.
MCLongRequests == {R(7, 0, "string", FALSE, FALSE)}
=============================================================================
