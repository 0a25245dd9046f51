--------------------------- MODULE MCImagePolicy ---------------------------
(* A budget of ten pixels; blocks of six, five and four; a block that       *)
(* repeats a triple with other dimensions; a block whose body is animated;  *)
(* a body over the cap.                                                     *)
EXTENDS ImagePolicy

Still(width, height) == [width |-> width, height |-> height, animated |-> FALSE]
Block(src, sha256, media_type, width, height) ==
    [src |-> src, sha256 |-> sha256, media_type |-> media_type,
     width |-> width, height |-> height]

MCImages ==
    {Block("a", "h1", "png", 3, 2), Block("a", "h1", "png", 2, 2),
     Block("b", "h2", "webp", 5, 1), Block("c", "h3", "png", 2, 2),
     Block("d", "h4", "png", 2, 2)}

(* A format decodes under its own type only. *)
Body(sha256, len, media_type, decoding) ==
    [sha256 |-> sha256, len |-> len,
     decoded |-> [t \in MediaTypes |-> IF t = media_type THEN decoding ELSE DecodeError]]

MCBodies ==
    {Body("h1", 2, "png", Still(3, 2)),
     Body("h2", 2, "webp", Still(5, 1)),
     Body("h2", 3, "webp", Still(5, 1)),
     Body("h3", 2, "png", Still(2, 2)),
     Body("h4", 1, "png", [Still(2, 2) EXCEPT !.animated = TRUE])}
=============================================================================
