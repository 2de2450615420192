------------------------------- MODULE Products -------------------------------
(***************************************************************************)
(* The price list of solvent/products.py: the built-in products with an    *)
(* operator's file applied, and the report of what is wrong with the file. *)
(* The operator edits the file; every order and every listing reads it     *)
(* anew.  A product has a price and, for its three dials, one scope.       *)
(***************************************************************************)
EXTENDS Integers, Sequences

CONSTANTS Builtin,    \* slugs of CATALOG
          Slug,       \* every slug an entry may name
          ListPrice, ListScope,  \* what the built-ins cost and hold
          Written,    \* numbers an operator may write, in Grain-ths of a cent or call
          Grain,      \* how fine the numbers are
          MaxEntries  \* bound on the entries of the file

Absent  == -1   \* the entry does not mention the field
Bad     == -2   \* a negative, Boolean or textual value
Endless == -3   \* Infinity, NaN, or a literal that overflows
NoSlug  == "no slug"   \* an entry without one, or that is no object
Unsold == [price |-> -1, scope |-> -1]

ASSUME ProductsAssumption ==
    /\ Builtin \subseteq Slug /\ Builtin # {} /\ NoSlug \notin Slug
    /\ ListPrice \in [Builtin -> Nat] /\ ListScope \in [Builtin -> Nat]
    /\ Written \subseteq Nat /\ Grain \in Nat \ {0} /\ MaxEntries \in Nat

VARIABLES entries,  \* the "products" of the file, in order
          retired,  \* its "retire"
          replaces, \* its "replace"
          fileState \* "absent", "object", "garbled" (no JSON, no list of products),
                    \* "foreign" (not in UTF-8), "crooked" ("retire" is a number)

productsVars == <<entries, retired, replaces, fileState>>

Says   == Written \cup {Absent, Bad, Endless}
Fields == [price : Says, scope : Says]
Entry == [slug : Slug \cup {NoSlug}, says : Fields]
Product == [price : Nat, scope : Nat]

ProductsTypeOK ==
    /\ entries \in Seq(Entry) /\ Len(entries) <= MaxEntries
    /\ retired \subseteq Slug /\ replaces \in BOOLEAN
    /\ fileState \in {"absent", "object", "garbled", "foreign", "crooked"}

-----------------------------------------------------------------------------
(* Reading the file.                                                       *)

Catalog == [s \in Slug |-> IF s \in Builtin
                           THEN [price |-> ListPrice[s], scope |-> ListScope[s]] ELSE Unsold]

\* A field of the entry can be read; a product that is not built in states it.
Readable(entry, f) ==
    /\ entry.says[f] # Bad
    /\ entry.says[f] = Absent => entry.slug \in Builtin

\* _product_from raises: int() of Infinity or NaN, unless the price, which comes
\* first, is why the entry is dropped.
Raises(entry) ==
    /\ entry.slug # NoSlug /\ Readable(entry, "price")
    /\ entry.says["price"] = Endless \/ entry.says["scope"] = Endless

\* _product_from returns a product.
Usable(entry) ==
    /\ entry.slug # NoSlug /\ ~Raises(entry)
    /\ \A f \in {"price", "scope"} : Readable(entry, f)

\* An entry is laid over the built-in product, not over an earlier entry; int()
\* cuts off the fraction, and makes nothing of one alone.
ProductFrom(entry) ==
    [f \in {"price", "scope"} |->
        IF entry.says[f] = Absent THEN Catalog[entry.slug][f] ELSE entry.says[f] \div Grain]

Merge(list, entry) ==
    IF Usable(entry) THEN [list EXCEPT ![entry.slug] = ProductFrom(entry)] ELSE list

\* The entries are laid over the built-ins, or over nothing, in order.
Base == IF replaces THEN [s \in Slug |-> Unsold] ELSE Catalog
Laid ==
    LET list[i \in 0..Len(entries)] == IF i = 0 THEN Base ELSE Merge(list[i - 1], entries[i])
    IN  list[Len(entries)]
Merged == [s \in Slug |-> IF s \in retired THEN Unsold ELSE Laid[s]]

\* Both readers catch OSError and JSONDecodeError, and no other: an entry that
\* raises, a file that cannot be decoded, and for load_catalog a "retire" that
\* cannot be gone through.
ReportRaises ==
    \/ fileState = "foreign"
    \/ fileState \in {"object", "crooked"} /\ \E i \in 1..Len(entries) : Raises(entries[i])
CatalogueRaises == ReportRaises \/ fileState = "crooked"

\* load_catalog, where it returns: a list that is empty in the end, like a file
\* that cannot be read, leaves the built-ins.
Catalogue ==
    IF fileState # "object" \/ \A s \in Slug : Merged[s] = Unsold THEN Catalog ELSE Merged

\* catalog_problems, where it returns, as the entries it names; 0 is the file.
Problems ==
    CASE fileState = "absent"  -> {}
      [] fileState = "garbled" -> {0}
      [] OTHER -> {i \in 1..Len(entries) :
                     \/ ~Usable(entries[i])
                     \/ \E k \in 1..(i - 1) : entries[k].slug = entries[i].slug}

-----------------------------------------------------------------------------
(* The operator at the file.                                               *)

ProductsInit ==
    entries = <<>> /\ retired = {} /\ replaces = FALSE /\ fileState = "absent"

Writes == fileState \in {"absent", "object"} /\ fileState' = "object"

AddEntry(entry) ==
    /\ Writes /\ Len(entries) < MaxEntries
    /\ entries' = Append(entries, entry)
    /\ UNCHANGED <<retired, replaces>>

Retire(s) ==
    /\ Writes /\ s \notin retired /\ retired' = retired \cup {s}
    /\ UNCHANGED <<entries, replaces>>

MakeWhole ==
    /\ Writes /\ ~replaces /\ replaces' = TRUE
    /\ UNCHANGED <<entries, retired>>

Garble ==
    /\ fileState = "object" /\ fileState' \in {"garbled", "foreign", "crooked"}
    /\ UNCHANGED <<entries, retired, replaces>>

Mend ==
    /\ fileState \in {"garbled", "foreign", "crooked"} /\ fileState' = "object"
    /\ UNCHANGED <<entries, retired, replaces>>

ProductsNext ==
    \/ \E entry \in Entry : AddEntry(entry)
    \/ \E s \in Slug : Retire(s)
    \/ MakeWhole \/ Garble \/ Mend

-----------------------------------------------------------------------------
(* Properties.                                                             *)

\* "Anything unreadable leaves the built-ins alone - an operator's typo must never
\* silently sell a product nobody priced" (load_catalog).  A reader raises for a
\* file of another encoding, a "retire" of another type or an endless number
\* alone, against the first half of that sentence, and of these the report keeps
\* silent on the "retire".  Where the list is read there is something to sell;
\* what is sold is built in or stated by an entry, but for the fraction; an entry
\* that is not followed, or a later one of its slug, is among the problems; and a
\* retired product is gone, unless that would leave nothing.
CatalogueIsTheFile ==
    /\ ProductsTypeOK
    /\ CatalogueRaises =>
         \/ fileState = "foreign" \/ (fileState = "crooked" /\ ~ReportRaises)
         \/ \E i \in 1..Len(entries) : Endless \in {entries[i].says["price"], entries[i].says["scope"]}
    /\ fileState = "garbled" => ~CatalogueRaises /\ Catalogue = Catalog /\ Problems # {}
    /\ ~CatalogueRaises =>
         /\ \E s \in Slug : Catalogue[s] # Unsold
         /\ \A s \in Slug :
              \/ Catalogue[s] \in {Catalog[s], Unsold}
              \/ \E i \in 1..Len(entries) :
                   /\ entries[i].slug = s
                   /\ \A f \in {"price", "scope"} :
                        \/ /\ entries[i].says[f] \in Written
                           /\ Grain * Catalogue[s][f] <= entries[i].says[f]
                           /\ entries[i].says[f] < Grain * (Catalogue[s][f] + 1)
                        \/ entries[i].says[f] = Absent /\ Catalogue[s][f] = Catalog[s][f]
         /\ fileState = "object" => \A i \in 1..Len(entries) :
              LET s == entries[i].slug
              IN  \/ s \in retired
                  \/ \E k \in Problems : k >= i /\ entries[k].slug = s
                  \/ Catalogue[s] = ProductFrom(entries[i])
         /\ fileState = "object" => \A s \in retired :
              \/ Catalogue[s] = Unsold
              \/ Catalogue = Catalog /\ \A i \in 1..Len(entries) : entries[i].slug \in retired \/ ~Usable(entries[i])
=============================================================================
