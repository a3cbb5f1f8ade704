------------------------------- MODULE MCUi --------------------------------
\* Model checking of Ui: menus of up to three items.
EXTENDS Ui
=============================================================================
