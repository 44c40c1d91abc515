\* One I2C controller, initialised and set up by the program.
CONSTANTS
    Serial = {}
    I2c = {"i2c0"}
    Pwm = {}
    Rates = {1, 2}
    Null = Null
SPECIFICATION Spec
PROPERTY EveryChangeReturns
