------------------------------ MODULE JobPricing ------------------------------
(***************************************************************************)
(* What a job costs: the lines the job compiler computes from a request    *)
(* and the catalog's price (app/job_compiler.py _compile_lines), and the   *)
(* check that every estimate passes before it is stored                    *)
(* (app/estimate_store.py _validate_generated_estimate).                   *)
(*                                                                         *)
(* Hours are in hundredths of an hour, money in cents, percentages in      *)
(* hundredths of a percent, so that rounding is what the code's quantize   *)
(* does.  A service needs some quantity of the one catalog part, or 0.     *)
(***************************************************************************)
EXTENDS Integers, Sequences, Functions

\* JobCompilationRequest: at least one service; rounding may leave 0 of what was more.
JobRequests ==
    [services : Seq([hours : Nat, quantity : Nat]) \ {<<>>},
     rate : Nat, supplies : Nat, tax : Nat]

\* quantize(..., ROUND_HALF_UP) of amount / unit.
Quotient(amount, unit) == (2 * amount + unit) \div (2 * unit)

LaborTotal(hours, rate) == Quotient(hours * rate, 100)
FeeTotal(subtotal, percent) == Quotient(subtotal * percent, 10000)

\* The sums over services, labor lines and part lines.
SumQuantity(services) == SumFunction([k \in DOMAIN services |-> services[k].quantity])
SumHours(labor) == SumFunction([k \in DOMAIN labor |-> labor[k].hours])
SumLabor(labor) == SumFunction([k \in DOMAIN labor |-> labor[k].total])
SumParts(parts) == SumFunction([k \in DOMAIN parts |-> parts[k].extended])

\* Mutant: the supplies are rounded with the tax.
CompiledLinesOneRounding(request, price) ==
    LET labor    == [k \in DOMAIN request.services |->
                        [hours |-> request.services[k].hours, rate |-> request.rate,
                         total |-> LaborTotal(request.services[k].hours, request.rate)]]
        quantity == SumQuantity(request.services)
        parts    == IF quantity = 0 THEN <<>>
                    ELSE <<[quantity |-> quantity, unit |-> price,
                            extended |-> price * quantity]>>
        supplies == FeeTotal(SumLabor(labor), request.supplies)
        tax      == FeeTotal(SumParts(parts), request.tax)
    IN  [labor |-> labor, parts |-> parts, hours |-> SumHours(labor),
         laborTotal |-> SumLabor(labor), partsTotal |-> SumParts(parts),
         supplies |-> supplies, tax |-> tax,
         total |-> SumLabor(labor) + SumParts(parts)
                   + Quotient(SumLabor(labor) * request.supplies
                              + SumParts(parts) * request.tax, 10000)]

\* _compile_lines: each labor line and each fee is rounded by itself; the parts of all
\* services are one line, at the price of the catalog now.
CompiledLines(request, price) ==
    LET labor    == [k \in DOMAIN request.services |->
                        [hours |-> request.services[k].hours, rate |-> request.rate,
                         total |-> LaborTotal(request.services[k].hours, request.rate)]]
        quantity == SumQuantity(request.services)
        parts    == IF quantity = 0 THEN <<>>
                    ELSE <<[quantity |-> quantity, unit |-> price,
                            extended |-> price * quantity]>>
        supplies == FeeTotal(SumLabor(labor), request.supplies)
        tax      == FeeTotal(SumParts(parts), request.tax)
    IN  [labor |-> labor, parts |-> parts, hours |-> SumHours(labor),
         laborTotal |-> SumLabor(labor), partsTotal |-> SumParts(parts),
         supplies |-> supplies, tax |-> tax,
         total |-> SumLabor(labor) + SumParts(parts) + supplies + tax]

\* What makes _compile_lines refuse: a service or a job that is worth nothing.
Priced(lines) ==
    /\ \A k \in DOMAIN lines.labor : lines.labor[k].total > 0
    /\ lines.total > 0

-----------------------------------------------------------------------------
\* What release makes of the lines (_build_estimate_response): a fee of 0 is no fee.
EstimateResponse(lines) ==
    [labor |-> lines.labor, parts |-> lines.parts,
     fees |-> {fee \in {[code |-> "shop_supplies", amount |-> lines.supplies],
                        [code |-> "parts_tax", amount |-> lines.tax]} : fee.amount > 0},
     totals |-> [hours |-> lines.hours, labor |-> lines.laborTotal,
                 parts |-> lines.partsTotal, supplies |-> lines.supplies,
                 tax |-> lines.tax, mobile |-> 0, total |-> lines.total]]

\* fee_map.get(code, 0)
FeeAmount(response, code) ==
    IF \E fee \in response.fees : fee.code = code
    THEN (CHOOSE fee \in response.fees : fee.code = code).amount
    ELSE 0

\* _validate_generated_estimate: every line and every total is what its parts add up to.
GeneratedEstimateValid(response) ==
    LET labor == SumLabor(response.labor)
        parts == SumParts(response.parts)
        Fee(code) == FeeAmount(response, code)
    IN  /\ response.labor # <<>> \/ response.parts # <<>>
        /\ \A k \in DOMAIN response.labor :
              LET line == response.labor[k]
              IN  /\ line.hours > 0 => line.total > 0
                  /\ line.total = LaborTotal(line.hours, line.rate)
        /\ \A k \in DOMAIN response.parts :
              /\ response.parts[k].quantity >= 1
              /\ response.parts[k].extended = response.parts[k].unit * response.parts[k].quantity
        /\ response.totals.labor = labor
        /\ response.totals.parts = parts
        /\ response.totals.supplies = Fee("shop_supplies")
        /\ response.totals.mobile = Fee("mobile_service_fee")
        /\ response.totals.tax = Fee("parts_tax")
        /\ response.totals.hours = SumHours(response.labor)
        /\ response.totals.total = labor + parts + Fee("shop_supplies")
                                   + Fee("mobile_service_fee") + Fee("parts_tax")
        /\ response.totals.total > 0
        /\ response.labor # <<>> => labor > 0
        /\ response.labor = <<>> => parts > 0

=============================================================================
