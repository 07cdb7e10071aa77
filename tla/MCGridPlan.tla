----------------------------- MODULE MCGridPlan -----------------------------
(* Requests, candles and prices for the planning of a grid.                *)
EXTENDS GridPlan

\* Forms of the wizard: the range, the grids, the capital, and then whether the
\* grids come from the average true range, the window of a virtual grid, the
\* pair's step and the bounds on the spacing.
Form(lower, upper, grids, capital, atr, window, minSize, least, most) ==
  [lower |-> lower, upper |-> upper, grids |-> grids, capital |-> capital, atr |-> atr,
   virtual |-> window > 0, window |-> window, minSize |-> minSize, minNotional |-> 500000,
   period |-> 2, least |-> least, most |-> most]

\* Capital for the least order of each grid and little more: the quantity has to be
\* raised, at $1 for the bot and at $1.60 for the preview.
SmallForm == Form(100, 300, 5, 50, FALSE, 0, 10, 10, 40)
MCSmallForms == {SmallForm}

\* An ordinary grid, a virtual one, levels a cent apart, little capital, levels
\* below a cent, a step below 0.01, a window on levels below a cent, too many
\* grids, too small a window, and derived grids: wide, at the floor of the fees and
\* refused after the rounding, and virtual.
MCForms ==
  {Form(1000, 1100, 6, 500, FALSE, 0, 10, 10, 40), Form(1000, 1107, 30, 500, FALSE, 20, 10, 10, 40),
   Form(100, 102, 4, 500, FALSE, 0, 10, 10, 40), SmallForm,
   Form(1000, 1003, 9, 500, FALSE, 0, 10, 10, 40), Form(16000, 16500, 5, 500, FALSE, 0, 1, 10, 40),
   Form(100, 110, 30, 500, FALSE, 21, 10, 10, 40), Form(1000, 1100, 99, 500, FALSE, 0, 10, 10, 40),
   Form(1000, 1107, 30, 500, FALSE, 19, 10, 10, 40), Form(107, 118, 9, 50, FALSE, 0, 1, 10, 40),
   Form(1000, 1011, 2, 500, TRUE, 0, 10, 1, 40), Form(1000, 1012, 2, 500, TRUE, 0, 10, 1, 40),
   Form(1000, 1100, 2, 500, TRUE, 20, 10, 1, 30)}

MCRanges == {<<1, 2, 1>>, <<20, 30, 40>>, <<90, 70, 80, 95>>}
MCLastPrices == {99, 101, 109, 200, 1002, 1050, 1099, 16200}
=============================================================================
