---------------------------- MODULE MCTokenizer ----------------------------
(* Lines of bytes, invalid bytes and special tokens, and files of up to four *)
(* tokens over two bytes, whose ranks may have gaps or be given twice.       *)
EXTENDS Tokenizer

CONSTANTS a, b, bad, endoftext, im_start, im_end, think, unthink

MCSpecials == <<endoftext, im_start, im_end, think, unthink>>

MCFileTokens == {<<a>>, <<b>>, <<a, b>>, <<b, a, b>>}

Word == <<a, b>>
Letter == <<b>>

MCLines ==
  {<< >>, <<a, b, a, b>>, <<b, bad, a>>, <<think, a, unthink, b>>, <<bad, im_end, a>>}
=============================================================================
