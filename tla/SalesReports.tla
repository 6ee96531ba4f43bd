------------------------------ MODULE SalesReports -----------------------------
(***************************************************************************)
(* How the silver layer classifies a document of ICG by channel and by sign, *)
(* and how the ABC report ranks the products of the lines it has signed.     *)
(* A header arrives, and then its lines one at a time.                      *)
(***************************************************************************)
EXTENDS Integers, Sequences, SequencesExt, FiniteSets, FiniteSetsExt

CONSTANTS
    Tipos,      \* TIPODOC: of 5, 13, 17, 18, 37 and 38, the ones the silver layer reads
    Products,
    Amounts,    \* TOTAL of a line of ICG, in units of money
    Lines       \* bound on the lines

VARIABLES
    doc,        \* the last document
    sold,       \* sold[p]: SUM(venta_neta) of product p
    lines

reportVars == <<doc, sold, lines>>
-----------------------------------------------------------------------------
(* A header of ICG as the joins leave it: CANAL_VENTA of the invoice's free     *)
(* fields, whether a payment is Rappi's, and whether the order it names is     *)
(* empty, the document it credits, or another.                              *)
Documents ==
    [tipodoc : Tipos, canal_venta : {"none", "C&C", "360", "ECOMMERCE", "PYA"},
     es_rappi : BOOLEAN, pedido : {"none", "origin", "other"}]

CreditNote(d) == d.tipodoc \in {17, 18}

Canal(d) ==
    CASE d.canal_venta = "C&C" -> "C&C"
      [] d.canal_venta = "360" -> "360"
      [] d.canal_venta = "ECOMMERCE" -> "E-COMMERCE"
      [] d.es_rappi /\ d.canal_venta \in {"none", "PYA"} -> "RAPPI"
      [] d.canal_venta = "PYA" /\ ~d.es_rappi -> "PYA"
      [] d.canal_venta = "none" /\ ~d.es_rappi ->
            IF ~CreditNote(d) \/ d.pedido = "none" THEN "TIENDA"
            ELSE IF d.pedido = "origin" THEN "360" ELSE "E-COMMERCE"

X_EsEcommerce(d) == d.canal_venta \in {"C&C", "ECOMMERCE"}
EsEcommerce(d) ==
    \/ d.canal_venta \in {"C&C", "ECOMMERCE"}
    \/ CreditNote(d) /\ d.pedido = "other"

Signo(d) == IF CreditNote(d) THEN -1 ELSE 1

\* ecommerce_performance: WHERE canal IN (...)
EcommerceChannels == {"E-COMMERCE", "C&C", "360", "RAPPI", "PYA"}
-----------------------------------------------------------------------------
(* product_abc.  ORDER BY venta_neta DESC leaves the order of equals open.     *)
Rankings ==
    {r \in SetToSeqs(Products) :
        \A i, j \in DOMAIN r : i < j => sold[r[i]] >= sold[r[j]]}

Total == MapThenSumSet(LAMBDA p : sold[p], Products)

\* venta_acumulada, whose frame is the rows up to the current one
Accumulated(r, i) == MapThenSumSet(LAMBDA k : sold[r[k]], 1..i)

\* x / NULLIF(venta_total, 0) < percent / 100, false when it is null.
Below(x, percent) ==
    \/ Total > 0 /\ 100 * x < percent * Total
    \/ Total < 0 /\ 100 * x > percent * Total

Before(r, i) == Accumulated(r, i) - sold[r[i]]

ClaseAbc(r, i) ==
    IF Below(Before(r, i), 80) THEN "A"
    ELSE IF Below(Before(r, i), 95) THEN "B" ELSE "C"
-----------------------------------------------------------------------------
NextDocument(d) ==
    /\ lines < Lines
    /\ doc' = d
    /\ UNCHANGED <<sold, lines>>

AddLine(p, amount) ==
    /\ lines < Lines
    /\ sold' = [sold EXCEPT ![p] = @ + amount * Signo(doc)]
    /\ lines' = lines + 1
    /\ UNCHANGED doc

Init ==
    /\ doc \in Documents
    /\ sold = [p \in Products |-> 0]
    /\ lines = 0

Next ==
    \/ \E d \in Documents : NextDocument(d)
    \/ \E p \in Products, amount \in Amounts : AddLine(p, amount)
    \/ lines = Lines /\ UNCHANGED reportVars

Spec == Init /\ [][Next]_reportVars
-----------------------------------------------------------------------------
TypeOK ==
    /\ doc \in Documents
    /\ sold \in [Products -> Int]
    /\ lines \in 0..Lines

(* The two CASE expressions of documentos_venta, kept apart, agree: what is in   *)
(* the channels of the web shop bears es_ecommerce, and what bears it is in a  *)
(* channel of the e-commerce report.                                        *)
EcommerceConsistent ==
    /\ Canal(doc) \in {"E-COMMERCE", "C&C"} => EsEcommerce(doc)
    /\ EsEcommerce(doc) => Canal(doc) \in EcommerceChannels

(* Whatever credit notes have made of the totals and however equals are ranked,  *)
(* the classes never improve down the ABC report, and unless the total is zero  *)
(* class A begins it and makes up at least 80 % of the total.                *)
Worse == [A |-> 1, B |-> 2, C |-> 3]
AbcSound ==
    \A r \in Rankings :
        LET classA == {i \in DOMAIN r : ClaseAbc(r, i) = "A"} IN
        /\ \A i, j \in DOMAIN r : i < j => Worse[ClaseAbc(r, i)] <= Worse[ClaseAbc(r, j)]
        /\ Total # 0 =>
              /\ 1 \in classA
              /\ ~Below(MapThenSumSet(LAMBDA i : sold[r[i]], classA), 80)
=============================================================================
