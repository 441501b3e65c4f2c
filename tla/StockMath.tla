------------------------------ MODULE StockMath ------------------------------
(***************************************************************************)
(* The stock formulas of server/src/utils/stockMath.ts.  Every figure of   *)
(* the program is a Decimal(14,2); a figure is an integer here, counted in *)
(* hundredths, on which round2 is the identity (it only removes the noise  *)
(* of binary floats before the figure reaches its two-decimal column).     *)
(***************************************************************************)
EXTENDS Integers

\* Subtotal of a page: opening plus the transfers in, less the transfers out.
OnlineStock(opening, stockIn, stockOut) == opening + stockIn - stockOut

OnlineRemaining(onlineStock, productionIn, fulfillmentOut, rts) ==
    onlineStock + productionIn - fulfillmentOut + rts

OfflineStock(opening, stockIn, stockOut) == opening + stockIn - stockOut

\* A backload is a delivery coming back, so it is added.
OfflineRemaining(offlineStock, productionIn, deliveryOut, backloads, upsellOut) ==
    offlineStock + productionIn - deliveryOut - upsellOut + backloads

\* Outflow figures used by the reports; the transfers are not outflow.
OfflineNetOutflow(deliveryOut, upsellOut, backloads) ==
    deliveryOut + upsellOut - backloads
OfflineDeliveryNet(deliveryOut, backloads) == deliveryOut - backloads

\* The movements of a page other than transfers enter the remaining stock as
\* one signed amount: production, returns and backloads up, fulfillment,
\* deliveries and upsells down.  The ledger keeps only this amount.
OnlineMovement(productionIn, fulfillmentOut, rts) ==
    OnlineRemaining(0, productionIn, fulfillmentOut, rts)
OfflineMovement(productionIn, deliveryOut, backloads, upsellOut) ==
    OfflineRemaining(0, productionIn, deliveryOut, backloads, upsellOut)

\* Closing stock of a row of either page.
Closing(opening, stockIn, stockOut, moved) ==
    OnlineStock(opening, stockIn, stockOut) + moved
=============================================================================
