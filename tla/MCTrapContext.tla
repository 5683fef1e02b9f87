--------------------------- MODULE MCTrapContext ---------------------------
\* TLC instance of TrapContext: one interrupt and one exception, each delegated
\* or not, so that frames of both levels nest in every order.
EXTENDS TrapContext

MstatusWrite == {[mie |-> 1, mpie |-> 0, mpp |-> m, sie |-> 1, spie |-> 0, spp |-> 0] :
                    m \in {MODE_U, MODE_S}}
Illegal == {{EX_II}}
SoftIrq == {{IRQ_SSIP}}
=============================================================================
