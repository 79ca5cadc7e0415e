--------------------------- MODULE MCClientHandler ---------------------------
(***************************************************************************)
(* The messages of the instance that TLC checks: one of every framing, at  *)
(* and over every limit, and one of every fault.                           *)
(***************************************************************************)
EXTENDS ClientHandler

Message(lines, framing, parts, fault) ==
    [lines |-> lines, framing |-> framing, parts |-> parts, fault |-> fault,
     expect |-> FALSE, close |-> FALSE]

MCMessages ==
    { Message(1, "none", << >>, "none"),
      [Message(1, "none", << >>, "none") EXCEPT !.close = TRUE],
      [Message(2, "length", <<2>>, "none") EXCEPT !.expect = TRUE],
      [Message(1, "chunked", <<1, 1>>, "none") EXCEPT !.expect = TRUE],
      Message(3, "none", << >>, "none"),
      Message(1, "length", <<4>>, "none"),
      Message(1, "chunked", <<3, 1>>, "none"),
      Message(2, "chunked", <<1, 1>>, "none"),
      Message(1, "chunked", <<1>>, "crlf"),
      Message(1, "chunked", <<1>>, "over"),
      Message(1, "chunked", <<1>>, "back"),
      Message(1, "chunked", << >>, "twice"),
      Message(1, "length", <<1>>, "twice"),
      Message(1, "none", << >>, "colon"),
      Message(1, "both", <<1>>, "none"),
      Message(1, "none", << >>, "line") }
=============================================================================
