------------------------------- MODULE Fields -------------------------------
(***************************************************************************)
(* How arrays of strings travel: joined with a separator by the sender and *)
(* cut again by the receiver, and the options as pairs of bytes.           *)
(* A string is a sequence of characters, an array one of strings.          *)
(***************************************************************************)
EXTENDS Integers, SequencesExt

CONSTANT Sep    \* NASTSEP

\* arr_send_response and nast_upd: the items with a separator between them.
Join(items) ==
  IF items = <<>> THEN <<>>
  ELSE FoldLeft(LAMBDA s, item : s \o <<Sep>> \o item, Head(items), Tail(items))

\* Cut s at each separator, and at its end, that is at least so many
\* characters away from the last cut.
Cut(s, least) ==
  LET scan(a, ch) ==
        IF ch = Sep /\ Len(a.item) >= least
        THEN [items |-> Append(a.items, a.item), item |-> <<>>]
        ELSE [a EXCEPT !.item = Append(@, ch)]
  IN  FoldLeft(scan, [items |-> <<>>, item |-> <<>>], Append(s, Sep)).items

\* build_result: the empty string is an array of one empty string.
build_result(s) == Cut(s, 0)

\* build_array: an item has a character at least; a separator that would end
\* an empty one becomes the first character of the next, or is dropped.
build_array(s) == Cut(s, 1)

-----------------------------------------------------------------------------
OptNames == {"use_qcache", "use_localdb", "fallthrough_async",
             "always_fallthrough", "fail_once", "no_fallthrough"}

\* set_default_opts; options are the set of those that are true.
DefaultOpts == {"use_qcache", "use_localdb"}

\* The switch in do_opt_set, and in nast_options_get, for one pair.
SetOption(opts, o) == IF o.on THEN opts \cup {o.name} ELSE opts \ {o.name}

\* The pairs are applied in order up to the first of a name nobody knows.
Known(pairs) ==
  LET bad == {i \in DOMAIN pairs : pairs[i].name \notin OptNames}
  IN  IF bad = {} THEN pairs ELSE SubSeq(pairs, 1, Min(bad) - 1)

ApplyOptions(opts, pairs) == FoldLeft(SetOption, opts, Known(pairs))

\* nast_options_get: the answer is written over the options the caller has.
OptionsRead(opts, items) == ApplyOptions(opts, items[1])

\* nast_options_set and do_opt_get: all options in the order of the bytes.
OptOrder == << "use_qcache", "use_localdb", "fallthrough_async",
               "always_fallthrough", "fail_once", "no_fallthrough" >>
EncodeOptions(opts) ==
  [i \in DOMAIN OptOrder |-> [name |-> OptOrder[i], on |-> OptOrder[i] \in opts]]
=============================================================================
