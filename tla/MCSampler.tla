----------------------------- MODULE MCSampler -----------------------------
(* Instances of Sampler: four ids, three logits, windows of up to two tokens *)
(* and the parameter sets below.  Fractions are tenths.                      *)
EXTENDS Sampler

MCLogits == {-4, 0, 2}
MCWindows == {<< >>, <<0>>, <<1, 1>>, <<0, 3>>}

Defaults ==
  [repeat_penalty |-> 2, frequency_penalty |-> 0, presence_penalty |-> 0,
   top_k |-> 3, tfs_z |-> 10, typical_p |-> 10, top_p |-> 9, inv_temp |-> 2, mirostat |-> 0]

Penalties == [Defaults EXCEPT !.frequency_penalty = 1, !.presence_penalty = 2, !.top_p = 5]
TailFree == [Defaults EXCEPT !.top_k = 40, !.tfs_z = 5, !.top_p = 10]
AllFilters == [TailFree EXCEPT !.top_p = 6, !.typical_p = 7]
Greedily == [Defaults EXCEPT !.inv_temp = 0]
Miro == [Defaults EXCEPT !.mirostat = 1]
Unfiltered == [Defaults EXCEPT !.top_k = 40, !.top_p = 10]

MCConfigs == {Defaults, Unfiltered, Penalties, TailFree, AllFilters, Greedily, Miro}
FlatLogits == {0, 1}
TypicalOnly == {[Defaults EXCEPT !.repeat_penalty = 1, !.top_k = 4, !.typical_p = 8]}
=============================================================================
